---- MODULE Spec2Model ----
(***************************************************************************)
(* A model of ladybug's EPW object (src/ladybug/epw.py): the lazy header   *)
(* and data load, the hour-alignment shift of point-in-time fields, save,  *)
(* the IP/SI unit toggle, to_wea and from_missing_values.                  *)
(*                                                                         *)
(* Texts of the file are tokens [form, v, s]:                              *)
(*   form "int"   the decimal text of the integer v            ("5")       *)
(*   form "zint"  an integer text with a leading zero          ("05")      *)
(*   form "dec"   Python's repr of the float v/10              ("5.2")     *)
(*   form "zdec"  a decimal text with a trailing zero          ("5.20")    *)
(*   form "txt"   the non-numeric text s (v tells two texts apart)         *)
(* Python values are [kind, repr]: kind is "int", "float" or "str" and     *)
(* repr is the token str(value) returns.                                   *)
(***************************************************************************)
EXTENDS Integers, Sequences, FiniteSets, TLC

\* ------------------------------------------------------------------ bounds
\* hours of a non-leap annual period (8760 in the program)
YearHours == 3
\* additional hours of a leap year (24 in the program)
LeapExtraHours == 1

\* data loads that fail (each leaves its lists in the object) before the model
\* stops following the object
MaxFailedLoads == 2

\* ------------------------------------------------------------- tokens, values
IntTok(n) == [form |-> "int", v |-> n, s |-> ""]
ZIntTok(n) == [form |-> "zint", v |-> n, s |-> ""]
DecTok(t) == [form |-> "dec", v |-> t, s |-> ""]
ZDecTok(t) == [form |-> "zdec", v |-> t, s |-> ""]
TxtTok(str, n) == [form |-> "txt", v |-> n, s |-> str]

IntVal(n) == [kind |-> "int", repr |-> IntTok(n)]
FloatVal(t) == [kind |-> "float", repr |-> DecTok(t)]
StrVal(tok) == [kind |-> "str", repr |-> tok]

\* str(value)
Str(val) == val.repr

\* the number a numeric value stands for, in tenths
Tenths(val) == IF val.kind = "int" THEN 10 * val.repr.v ELSE val.repr.v

\* the outcome of a conversion that raises ValueError
ParseError == [kind |-> "ValueError", repr |-> [form |-> "txt", v |-> 0, s |-> ""]]

\* value_type(text) of _import_data: the value, or the exception raised
ParseFloat(tok) ==
    IF tok.form \in {"int", "zint"} THEN FloatVal(10 * tok.v)
    ELSE IF tok.form \in {"dec", "zdec"} THEN FloatVal(tok.v)
    ELSE ParseError

ParseInt(tok) ==
    IF tok.form \in {"int", "zint"} THEN IntVal(tok.v)
    ELSE IF tok.form \in {"dec", "zdec"} THEN IntVal((tok.v + 5) \div 10)
    ELSE ParseError

ParseValue(value_type, tok) ==
    IF value_type = "str" THEN StrVal(tok)
    ELSE IF value_type = "float" THEN ParseFloat(tok)
    ELSE ParseInt(tok)

\* ------------------------------------------------------------- EPWFields
MaxFields == 35
FieldNumbers == 0 .. (MaxFields - 1)

FloatFields == {6, 7, 21, 24, 29, 32, 33, 34}

FieldType(f) ==
    IF f = 5 THEN "str" ELSE IF f \in FloatFields THEN "float" ELSE "int"

\* the 'missing' entry of FIELDS (fields 6..34), as the Python literal
FieldMissing(f) ==
    CASE f \in {6, 7} -> FloatVal(999)
      [] f \in {8, 20, 21, 28, 29, 30, 32, 33} -> IntVal(999)
      [] f \in {9, 16, 17, 18} -> IntVal(999999)
      [] f \in {10, 11, 12, 13, 14, 15, 19, 24} -> IntVal(9999)
      [] f \in {22, 23, 31, 34} -> IntVal(99)
      [] f = 25 -> IntVal(99999)
      [] f = 26 -> IntVal(9)
      [] f = 27 -> IntVal(999999999)
      [] OTHER -> [kind |-> "None", repr |-> [form |-> "txt", v |-> 0, s |-> ""]]

\* data types of the fields: radiation, illuminance and luminance are
\* averaged or accumulated over the hour, every other type is instantaneous
PointInTime(f) == f \notin 10 .. 19

\* data types that declare an IP unit
HasIPUnit(f) == f \in ({6, 7, 9, 21, 24, 25, 28, 30, 33} \cup (10 .. 19))

\* ------------------------------------------------------------- the annual period
\* len(AnalysisPeriod(is_leap_year).datetimes)
Hours(is_leap_year) == IF is_leap_year THEN YearHours + LeapExtraHours ELSE YearHours

Min(a, b) == IF a < b THEN a ELSE b

\* ------------------------------------------------------------- files
EmptyTok == TxtTok("", 0)

\* keys of DesignDay.heating_keys, cooling_keys and extreme_keys
HeatingKeys == 15
CoolingKeys == 32
ExtremeKeys == 16

\* line 1, LOCATION,city,state,country,source,station,lat,long,tz,elevation
LocationLine(city) ==
    << TxtTok("LOCATION", 0), TxtTok("city", city), TxtTok("state", 0),
       TxtTok("country", 0), TxtTok("source", 0), IntTok(724666), DecTok(397),
       DecTok(1052), DecTok(70), DecTok(18290) >>

\* line 2 of a file that declares design conditions: 70 columns
DesignLine1 ==
    [i \in 1 .. 70 |->
        CASE i = 1 -> TxtTok("DESIGN CONDITIONS", 0)
          [] i = 2 -> IntTok(1)
          [] i = 5 -> TxtTok("Heating", 0)
          [] i = 21 -> TxtTok("Cooling", 0)
          [] i = 54 -> TxtTok("Extremes", 0)
          [] OTHER -> IntTok(i)]

DesignLine0 == << TxtTok("DESIGN CONDITIONS", 0), IntTok(0) >>

HeaderLines(city, leap, design) ==
    << LocationLine(city),
       IF design THEN DesignLine1 ELSE DesignLine0,
       << TxtTok("TYPICAL/EXTREME PERIODS", 0), IntTok(0) >>,
       << TxtTok("GROUND TEMPERATURES", 0), IntTok(0) >>,
       << TxtTok("HOLIDAYS/DAYLIGHT SAVINGS", 0),
          TxtTok(IF leap THEN "Yes" ELSE "No", 0), IntTok(0), IntTok(0), IntTok(0) >>,
       << TxtTok("COMMENTS 1", 0), TxtTok("comment", 1) >>,
       << TxtTok("COMMENTS 2", 0), TxtTok("comment", 2) >>,
       << TxtTok("DATA PERIODS", 0), IntTok(1), IntTok(1), TxtTok("Data", 0) >> >>

\* the text of column f (0-based) of data line i (1-based) in a file written
\* in the given style; every line and column holds a different number
DataTok(style, i, f) ==
    LET n == 40 * i + f
    IN  IF FieldType(f) = "str" THEN TxtTok("flags", i)
        ELSE IF FieldType(f) = "float"
        THEN CASE style = "canon" -> DecTok(10 * n + 2)
               [] style = "zeros" -> ZDecTok(10 * n + 2)
               [] OTHER -> IntTok(n)
        ELSE CASE style = "canon" -> IntTok(n)
               [] style = "zeros" -> ZIntTok(n)
               [] OTHER -> DecTok(10 * n + 2)

DataLines(style, n, cols) ==
    [i \in 1 .. n |-> [j \in 1 .. cols |-> DataTok(style, i, j - 1)]]

MkFile(leap, design, style, n, cols) ==
    [exists |-> TRUE,
     lines |-> HeaderLines(1, leap, design) \o DataLines(style, n, cols)]

NoFile == [exists |-> FALSE, lines |-> << >>]

\* a file whose data line 2 holds a text in the numeric column 6
BadFile ==
    LET g == MkFile(FALSE, FALSE, "canon", YearHours, MaxFields)
    IN  [g EXCEPT !.lines[10][7] = TxtTok("n/a", 0)]

\* a file whose data line 2 has fewer columns than data line 1
RaggedFile ==
    LET g == MkFile(FALSE, FALSE, "canon", YearHours, MaxFields)
    IN  [g EXCEPT !.lines[10] = SubSeq(@, 1, 20)]

\* a design-condition line that declares conditions and has the Heating
\* section only, and one cut short after 60 of its 70 columns
HeatingOnlyLine ==
    [i \in 1 .. 70 |-> IF i \in {21, 54} THEN TxtTok("", 0) ELSE DesignLine1[i]]
ShortDesignLine == SubSeq(DesignLine1, 1, 60)

\* full-year files that differ in their design-condition line
DesignFiles ==
    { [MkFile(FALSE, FALSE, "canon", YearHours, MaxFields) EXCEPT !.lines[2] = line] :
        line \in {DesignLine0, DesignLine1, HeatingOnlyLine, ShortDesignLine} }

\* files holding a full year, in the three styles
ValidFiles ==
    { MkFile(FALSE, FALSE, style, YearHours, MaxFields) :
        style \in {"canon", "zeros", "mixed"} }
    \cup { MkFile(TRUE, FALSE, "canon", Hours(TRUE), MaxFields),
           MkFile(FALSE, TRUE, "canon", YearHours, MaxFields) }

\* files that are short or long of a year, narrow or wide, or malformed
OddFiles ==
    { MkFile(FALSE, FALSE, "canon", n, MaxFields) : n \in {0, YearHours - 1} }
    \cup { MkFile(FALSE, FALSE, "canon", YearHours + 1, MaxFields),
           MkFile(FALSE, FALSE, "canon", YearHours, 10),
           MkFile(FALSE, FALSE, "canon", YearHours, MaxFields + 1),
           BadFile, RaggedFile }

Files == ValidFiles \cup OddFiles

\* ------------------------------------------------------------- sequences
\* the smallest element of a non-empty set of integers
Least(S) == CHOOSE x \in S : \A y \in S : x <= y

\* the last value put in front without being taken off the end
InsertLastAtFront(values) == << values[Len(values)] >> \o values

\* values.insert(0, values.pop())
MoveLastToFront(values) ==
    << values[Len(values)] >> \o SubSeq(values, 1, Len(values) - 1)

\* values.append(values.pop(0))
MoveFirstToEnd(values) == Tail(values) \o << Head(values) >>

\* ------------------------------------------------------------- the EPW object
\* a list of hourly values before it is wrapped into a data collection
RawList(values) == [coll |-> FALSE, unit |-> "SI", values |-> values]

\* HourlyContinuousCollection(header, values), the header in the field's unit
Collection(values) == [coll |-> TRUE, unit |-> "SI", values |-> values]

\* EPW.__init__
NewEPW ==
    [is_header_loaded |-> FALSE,
     is_data_loaded |-> FALSE,
     is_ip |-> FALSE,
     data |-> << >>,
     location |-> EmptyTok,
     metadata |-> << >>,
     heating_dict |-> << >>,
     cooling_dict |-> << >>,
     extremes_dict |-> << >>,
     is_leap_year |-> FALSE,
     daylight_savings_start |-> IntTok(0),
     daylight_savings_end |-> IntTok(0),
     comments_1 |-> EmptyTok,
     comments_2 |-> EmptyTok,
     num_of_fields |-> MaxFields]

\* what one call did besides changing the object: the exception it raised,
\* whether it parsed the header lines and the data lines of the file, how many
\* collection conversions it made, and the lines it gave to write_to_file
Did(self, exc) ==
    [self |-> self, exc |-> exc, parsed_header |-> FALSE, parsed_data |-> FALSE,
     convs |-> 0, write_called |-> FALSE, written |-> << >>]

\* zip(keys, dday_data[from:to]) stored into a dictionary: the values of the
\* first keys, in key order (columns are 0-based in the code, 1-based here)
ZipKeys(dict, nkeys, dday, from, to) ==
    LET slice == SubSeq(dday, from + 1, Min(to, Len(dday)))
        got == SubSeq(slice, 1, Min(nkeys, Len(slice)))
    IN  got \o SubSeq(dict, Len(got) + 1, Len(dict))

\* the header block of _import_data
ParseHeader(self, lines) ==
    LET loc == lines[1]
        dday == lines[2]
        declared == Len(dday) >= 2 /\ ParseInt(dday[2]) = IntVal(1)
        leap == lines[5]
    IN  [self EXCEPT
            !.location = loc[2],
            !.metadata = << loc[5], loc[4], loc[2] >>,
            !.heating_dict =
                IF declared /\ dday[5].s = "Heating"
                THEN ZipKeys(@, HeatingKeys, dday, 5, 20) ELSE @,
            !.cooling_dict =
                IF declared /\ dday[21].s = "Cooling"
                THEN ZipKeys(@, CoolingKeys, dday, 21, 53) ELSE @,
            !.extremes_dict =
                IF declared /\ dday[54].s = "Extremes"
                THEN ZipKeys(@, ExtremeKeys, dday, 54, 70) ELSE @,
            !.is_leap_year = (leap[2].s = "Yes"),
            !.daylight_savings_start = leap[3],
            !.daylight_savings_end = leap[4],
            !.comments_1 = IF Len(lines[6]) > 1 THEN lines[6][2] ELSE EmptyTok,
            !.comments_2 = IF Len(lines[7]) > 1 THEN lines[7][2] ELSE EmptyTok,
            !.is_header_loaded = TRUE]

\* lines the data block skips after line 1 when the header was loaded before
SkippedHeaderLines == 7

\* _import_data without the skip of the header lines already loaded
LinesBeforeDataNoSkip(original_header_load) ==
    IF original_header_load THEN 1 ELSE 8

\* the number of lines read when the first data line is read next: line 1,
\* then 7 more, read by the header block or skipped
LinesBeforeData(original_header_load) ==
    IF original_header_load THEN 1 + SkippedHeaderLines ELSE 8

\* the column (0-based) of a data line at which decoding fails, num_of_fields
\* if it does not fail
BadColumn(row, num_of_fields) ==
    Least({ f \in 0 .. (num_of_fields - 1) :
              \/ f + 1 > Len(row)
              \/ ParseValue(FieldType(f), row[f + 1]) = ParseError }
          \cup {num_of_fields})

\* the first data line (1-based) at which decoding fails, one past the last
\* line if none does
BadRow(rows, num_of_fields) ==
    Least({ k \in 1 .. Len(rows) : BadColumn(rows[k], num_of_fields) < num_of_fields }
          \cup {Len(rows) + 1})

\* the decoded values appended to the first num_of_fields lists, up to the
\* cell (badrow, badcol) at which decoding raises
AppendDecoded(data, rows, num_of_fields, badrow, badcol) ==
    [i \in 1 .. Len(data) |->
        IF i <= num_of_fields
        THEN [data[i] EXCEPT !.values =
                @ \o [k \in 1 .. (IF i - 1 < badcol THEN badrow ELSE badrow - 1) |->
                        ParseValue(FieldType(i - 1), rows[k][i])]]
        ELSE data[i]]

\* the exception of the cell at which decoding stops: a line that lacks the
\* column raises IndexError, a text that is no number raises ValueError
DecodeError(rows, badrow, badcol) ==
    IF badrow > Len(rows) THEN "none"
    ELSE IF badcol + 1 > Len(rows[badrow]) THEN "IndexError"
    ELSE "ValueError"

\* the 'collect hourly data' loop from the row at which it stops
CollectUpTo(data, rows, num_of_fields, badrow) ==
    [data |-> AppendDecoded(data, rows, num_of_fields, badrow,
                            IF badrow > Len(rows) THEN 0
                            ELSE BadColumn(rows[badrow], num_of_fields)),
     exc |-> DecodeError(rows, badrow,
                         IF badrow > Len(rows) THEN 0
                         ELSE BadColumn(rows[badrow], num_of_fields))]

\* the 'collect hourly data' loop of _import_data
CollectHourlyData(data, rows, num_of_fields) ==
    CollectUpTo(data, rows, num_of_fields, BadRow(rows, num_of_fields))

\* the first point-in-time field whose list is empty, num_of_fields if none
FirstEmpty(data, num_of_fields) ==
    Least({ f \in 0 .. (num_of_fields - 1) :
              PointInTime(f) /\ Len(data[f + 1].values) = 0 }
          \cup {num_of_fields})

\* the last hour moved to the first position in the point-in-time fields
\* before field stop
MoveLastToFrontUpTo(data, stop) ==
    [i \in 1 .. Len(data) |->
        IF i - 1 < stop /\ PointInTime(i - 1)
        THEN [data[i] EXCEPT !.values = MoveLastToFront(@)]
        ELSE data[i]]

\* _import_data without the shift of the point-in-time fields
ShiftLoadedDataSkipped(data, num_of_fields) == [data |-> data, exc |-> "none"]

\* the loop of _import_data that moves the last hour of every point-in-time
\* field to the first position; pop() of an empty list raises IndexError
ShiftLoadedData(data, num_of_fields) ==
    [data |-> MoveLastToFrontUpTo(data, FirstEmpty(data, num_of_fields)),
     exc |-> IF FirstEmpty(data, num_of_fields) < num_of_fields
             THEN "IndexError" ELSE "none"]

\* the loop of _import_data that builds the data collections
BuildCollections(data, num_of_fields) ==
    [i \in 1 .. Len(data) |->
        IF i <= num_of_fields THEN Collection(data[i].values) ELSE data[i]]

\* _import_data from the shift of the point-in-time fields on
ImportShifted(r, shifted) ==
    IF shifted.exc # "none"
    THEN [r EXCEPT !.self.data = shifted.data, !.exc = shifted.exc]
    ELSE [r EXCEPT !.self.data = BuildCollections(shifted.data, r.self.num_of_fields),
                   !.self.is_data_loaded = TRUE]

\* _import_data from the end of the 'collect hourly data' loop on
ImportCollected(r, read) ==
    IF read.exc # "none"
    THEN [r EXCEPT !.self.data = read.data, !.exc = read.exc]
    ELSE ImportShifted(r, ShiftLoadedData(read.data, r.self.num_of_fields))

\* _import_data from the creation of the lists of the fields on
ImportFields(r, rows, num_of_fields) ==
    ImportCollected(
        [r EXCEPT !.self.num_of_fields = num_of_fields, !.parsed_data = TRUE],
        CollectHourlyData(
            r.self.data \o [i \in 1 .. num_of_fields |-> RawList(<< >>)],
            rows, num_of_fields))

\* _import_data from the first data line on; the line read at the end of the
\* file is '', which splits into one column
ImportRows(r, rows) ==
    ImportFields(r, rows, Min(IF rows = << >> THEN 1 ELSE Len(rows[1]), MaxFields))

\* _import_data after the header block
ImportAfterHeader(r, original_header_load, lines, import_header_only) ==
    IF import_header_only THEN r
    ELSE ImportRows(r, SubSeq(lines, LinesBeforeData(original_header_load) + 1,
                              Len(lines)))

\* EPW._import_data
ImportData(self, f, import_header_only) ==
    IF ~f.exists THEN Did(self, "TypeError")
    ELSE ImportAfterHeader(
            [Did(IF self.is_header_loaded THEN self ELSE ParseHeader(self, f.lines),
                 "none")
                EXCEPT !.parsed_header = ~self.is_header_loaded],
            self.is_header_loaded, f.lines, import_header_only)

\* EPW._load_header_check
LoadHeaderCheck(self, f) ==
    IF ~self.is_header_loaded THEN ImportData(self, f, TRUE) ELSE Did(self, "none")

\* ------------------------------------------------------------- units
\* a value of an SI series in the IP unit of its data type, and back; the
\* result of the arithmetic is a float
ValueToIP(val) == FloatVal(2 * Tenths(val) + 320)
ValueToSI(val) == FloatVal((Tenths(val) - 320) \div 2)

\* coll.convert_to_ip() on the collection of field f: the values in the IP unit
\* of the data type, unchanged if the type has none or the header unit is IP
CollectionToIP(f, c) ==
    IF HasIPUnit(f) /\ c.unit = "SI"
    THEN [c EXCEPT !.unit = "IP",
                   !.values = [k \in 1 .. Len(@) |-> ValueToIP(@[k])]]
    ELSE c

\* coll.convert_to_si()
CollectionToSI(f, c) ==
    IF HasIPUnit(f) /\ c.unit = "IP"
    THEN [c EXCEPT !.unit = "SI",
                   !.values = [k \in 1 .. Len(@) |-> ValueToSI(@[k])]]
    ELSE c

\* convert_to_ip without the test of is_ip
ToIPLoadedAlways(r) ==
    IF r.exc # "none" THEN r
    ELSE [r EXCEPT !.self.data = [i \in 1 .. Len(@) |-> CollectionToIP(i - 1, @[i])],
                   !.self.is_ip = TRUE,
                   !.convs = @ + Len(r.self.data)]

\* convert_to_ip after its load of the data
ToIPLoaded(r) ==
    IF r.exc # "none" THEN r
    ELSE IF r.self.is_ip = FALSE
    THEN [r EXCEPT !.self.data = [i \in 1 .. Len(@) |-> CollectionToIP(i - 1, @[i])],
                   !.self.is_ip = TRUE,
                   !.convs = @ + Len(r.self.data)]
    ELSE [r EXCEPT !.self.is_ip = TRUE]

\* convert_to_si after its load of the data
ToSILoaded(r) ==
    IF r.exc # "none" THEN r
    ELSE IF r.self.is_ip = TRUE
    THEN [r EXCEPT !.self.data = [i \in 1 .. Len(@) |-> CollectionToSI(i - 1, @[i])],
                   !.self.is_ip = FALSE,
                   !.convs = @ + Len(r.self.data)]
    ELSE [r EXCEPT !.self.is_ip = FALSE]

\* the load every data operation starts with
LoadDataCheck(self, f) ==
    IF ~self.is_data_loaded THEN ImportData(self, f, FALSE) ELSE Did(self, "none")

\* EPW.convert_to_ip
ConvertToIP(self, f) == ToIPLoaded(LoadDataCheck(self, f))

\* EPW.convert_to_si
ConvertToSI(self, f) == ToSILoaded(LoadDataCheck(self, f))

\* the range check of _get_data_by_field
CheckFieldNumber(r, field_number) ==
    IF r.exc # "none" THEN r
    ELSE IF ~(0 <= field_number /\ field_number < r.self.num_of_fields)
    THEN [r EXCEPT !.exc = "ValueError"]
    ELSE r

\* EPW._get_data_by_field
GetDataByField(self, f, field_number) ==
    CheckFieldNumber(LoadDataCheck(self, f), field_number)

\* ------------------------------------------------------------- header, save
\* the header property once the header is loaded: the regenerated lines, or
\* the KeyError of a design-condition dictionary that lacks a required key
Header(self) ==
    LET found == self.heating_dict # << >> /\ self.cooling_dict # << >>
                 /\ self.extremes_dict # << >>
        complete == Len(self.heating_dict) >= HeatingKeys
                    /\ Len(self.cooling_dict) >= CoolingKeys
                    /\ Len(self.extremes_dict) >= ExtremeKeys
        des_str ==
            IF found
            THEN << TxtTok("DESIGN CONDITIONS", 0), IntTok(1),
                    TxtTok("Climate Design Data 2009 ASHRAE Handbook", 0), EmptyTok,
                    TxtTok("Heating", 0) >>
                 \o SubSeq(self.heating_dict, 1, HeatingKeys)
                 \o << TxtTok("Cooling", 0) >>
                 \o SubSeq(self.cooling_dict, 1, CoolingKeys)
                 \o << TxtTok("Extremes", 0) >>
                 \o SubSeq(self.extremes_dict, 1, ExtremeKeys)
            ELSE << TxtTok("DESIGN CONDITIONS", 0), IntTok(0) >>
    IN  IF found /\ ~complete THEN [exc |-> "KeyError", lines |-> << >>]
        ELSE [exc |-> "none",
              lines |->
                << << TxtTok("LOCATION", 0), self.location >>,
                   des_str,
                   << TxtTok("TYPICAL/EXTREME PERIODS", 0), IntTok(0), EmptyTok >>,
                   << TxtTok("GROUND TEMPERATURES", 0), IntTok(0) >>,
                   << TxtTok("HOLIDAYS/DAYLIGHT SAVINGS", 0),
                      TxtTok(IF self.is_leap_year THEN "Yes" ELSE "No", 0),
                      self.daylight_savings_start, self.daylight_savings_end,
                      IntTok(0) >>,
                   << TxtTok("COMMENTS 1", 0), self.comments_1 >>,
                   << TxtTok("COMMENTS 2", 0), self.comments_2 >>,
                   << TxtTok("DATA PERIODS", 0), IntTok(1), IntTok(1),
                      TxtTok("Data", 0) >> >>]

\* the first hour moved to the end in the point-in-time fields before stop
MoveFirstToEndUpTo(data, stop) ==
    [i \in 1 .. Len(data) |->
        IF i - 1 < stop /\ PointInTime(i - 1)
        THEN [data[i] EXCEPT !.values = MoveFirstToEnd(@)]
        ELSE data[i]]

\* save without its first loop: no series is shifted before the lines are built
InverseShiftSkipped(data, num_of_fields) == [data |-> data, exc |-> "none"]

\* the first loop of save's try block: the first hour of every point-in-time
\* field is moved to the end, up to the field whose pop(0) raises IndexError
InverseShift(data, num_of_fields) ==
    [data |-> MoveFirstToEndUpTo(data, FirstEmpty(data, num_of_fields)),
     exc |-> IF FirstEmpty(data, num_of_fields) < num_of_fields
             THEN "IndexError" ELSE "none"]

\* save without the loop of its finally block
ForwardShiftSkipped(data, num_of_fields) == [data |-> data, exc |-> "none"]

\* the loop of save's finally block: the last hour of every point-in-time
\* field is moved to the front, up to the field whose pop() raises IndexError
ForwardShift(data, num_of_fields) ==
    [data |-> MoveLastToFrontUpTo(data, FirstEmpty(data, num_of_fields)),
     exc |-> IF FirstEmpty(data, num_of_fields) < num_of_fields
             THEN "IndexError" ELSE "none"]

\* the second loop of save's try block: one line per hour of the annual
\* period; values[hour] of a series that is too short raises IndexError
HourLines(data, num_of_fields, hours) ==
    IF \E f \in 1 .. num_of_fields : Len(data[f].values) < hours
    THEN [exc |-> "IndexError", lines |-> << >>]
    ELSE [exc |-> "none",
          lines |-> [h \in 1 .. hours |->
                       [f \in 1 .. num_of_fields |-> Str(data[f].values[h])]]]

\* the try block of save after the inverse shift
TryBlock(self, inv) ==
    IF inv.exc # "none" THEN [exc |-> inv.exc, lines |-> << >>]
    ELSE HourLines(inv.data, self.num_of_fields, Hours(self.is_leap_year))

\* the exception that leaves save's try statement: an IndexError of the try
\* block is raised again as the ValueError of the data length, a failing write
\* raises IOError, and an exception of the finally block replaces either
TryOutcome(try_exc, write_ok, finally_exc) ==
    IF finally_exc # "none" THEN finally_exc
    ELSE IF try_exc = "IndexError" THEN "ValueError"
    ELSE IF ~write_ok THEN "IOError"
    ELSE "none"

\* the state in which save's try statement is left
AfterTry(r, head, body, fwd, write_ok) ==
    [r EXCEPT !.self.data = fwd.data,
              !.exc = TryOutcome(body.exc, write_ok, fwd.exc),
              !.write_called = (body.exc = "none"),
              !.written = IF body.exc = "none" /\ write_ok
                          THEN head.lines \o body.lines ELSE << >>]

\* save that does not restore the units
SaveReturnNoRestore(r, originally_ip) == r

\* the end of save: the units of an EPW that was in IP are restored
SaveReturn(r, originally_ip) ==
    IF originally_ip THEN ToIPLoaded(r) ELSE r

\* the try statement of save
SaveTry(r, head, inv, originally_ip, write_ok) ==
    SaveReturn(AfterTry(r, head, TryBlock(r.self, inv),
                        ForwardShift(inv.data, r.self.num_of_fields), write_ok),
               originally_ip)

\* save from 'lines = self.header' on, the data loaded and in SI
SaveLines(r, head, originally_ip, write_ok) ==
    IF head.exc # "none" THEN [r EXCEPT !.exc = head.exc]
    ELSE SaveTry(r, head, InverseShift(r.self.data, r.self.num_of_fields),
                 originally_ip, write_ok)

\* save after its load of the data
SaveLoaded(r, write_ok) ==
    IF r.exc # "none" THEN r
    ELSE IF r.self.is_ip = TRUE
    THEN SaveLines(ToSILoaded(r), Header(r.self), TRUE, write_ok)
    ELSE SaveLines(r, Header(r.self), FALSE, write_ok)

\* EPW.save
Save(self, f, write_ok) == SaveLoaded(LoadDataCheck(self, f), write_ok)

\* ------------------------------------------------------------- to_wea
\* "%d" % value
FormatD(val) == IntTok(Tenths(val) \div 10)

\* the hours of the wea file: the caller's list, by default every hour of the
\* annual period of the collection (hoys are 0-based)
WeaHoys(hoys, hours) == IF hoys = << >> THEN [h \in 1 .. hours |-> h - 1] ELSE hoys

\* the exception of the loop of to_wea: reading an hour that a series or the
\* datetimes of the annual period do not hold raises IndexError, reading
\* field 15 of an EPW that has no such field raises ValueError
WeaError(data, num_of_fields, hoys, hours) ==
    IF hoys = << >> THEN "none"
    ELSE IF num_of_fields <= 15
    THEN (IF hoys[1] + 1 > Len(data[15].values) THEN "IndexError" ELSE "ValueError")
    ELSE IF \E k \in 1 .. Len(hoys) :
              \/ hoys[k] + 1 > Len(data[15].values)
              \/ hoys[k] + 1 > Len(data[16].values)
              \/ hoys[k] + 1 > hours
    THEN "IndexError"
    ELSE "none"

\* the value lines of to_wea
WeaLines(data, hoys) ==
    [k \in 1 .. Len(hoys) |->
        << IntTok(hoys[k]),
           FormatD(data[15].values[hoys[k] + 1]),
           FormatD(data[16].values[hoys[k] + 1]) >>]

\* the end of to_wea: the file is written and the units are restored
WeaWrite(r, hoys, originally_ip, write_ok) ==
    IF ~write_ok THEN [r EXCEPT !.write_called = TRUE, !.exc = "IOError"]
    ELSE SaveReturn(
            [r EXCEPT !.write_called = TRUE,
                      !.written = << << TxtTok("place", 0), r.self.location >> >>
                                  \o WeaLines(r.self.data, hoys)],
            originally_ip)

\* to_wea with the data in SI
WeaBody(r, hoys, originally_ip, write_ok) ==
    IF WeaError(r.self.data, r.self.num_of_fields, hoys,
                Hours(r.self.is_leap_year)) # "none"
    THEN [r EXCEPT !.exc = WeaError(r.self.data, r.self.num_of_fields, hoys,
                                    Hours(r.self.is_leap_year))]
    ELSE WeaWrite(r, hoys, originally_ip, write_ok)

\* to_wea without the conversion to SI
ToWeaLoadedNoSI(r, hoys, write_ok) ==
    IF r.exc # "none" THEN r
    ELSE WeaBody(r, WeaHoys(hoys, Hours(r.self.is_leap_year)), FALSE, write_ok)

\* to_wea after direct_normal_radiation was read for the default hours
ToWeaLoaded(r, hoys, write_ok) ==
    IF r.exc # "none" THEN r
    ELSE IF r.self.is_ip = TRUE
    THEN WeaBody(ToSILoaded(r), WeaHoys(hoys, Hours(r.self.is_leap_year)),
                 TRUE, write_ok)
    ELSE WeaBody(r, WeaHoys(hoys, Hours(r.self.is_leap_year)), FALSE, write_ok)

\* EPW.to_wea
ToWea(self, f, hoys, write_ok) ==
    ToWeaLoaded(GetDataByField(self, f, 14), hoys, write_ok)

\* ------------------------------------------------------------- from_missing_values
\* the datetime and uncertainty columns of hour k (1-based) of the period
DatetimeColumn(f, k, is_leap_year) ==
    LET hour == (k - 1) % 24
    IN  CASE f = 0 -> IntVal(IF is_leap_year THEN 2016 ELSE 2017)
          [] f = 1 -> IntVal(1)
          [] f = 2 -> IntVal(1 + ((k - 1) \div 24))
          [] f = 3 -> IntVal(IF hour # 0 THEN hour ELSE 24)
          [] f = 4 -> IntVal(0)
          [] OTHER -> StrVal(TxtTok("?9?9?9?9E0?9?9?9?9?9?9?9?9?9?9?9?9?9?9?9*9*9?9?9?9", 0))

\* from_missing_values filling every field with 0
MissingValueZero(f) == IntVal(0)

\* mis_val of from_missing_values
MissingValue(f) ==
    IF FieldMissing(f).kind # "None" THEN FieldMissing(f) ELSE IntVal(0)

\* EPW.from_missing_values
FromMissingValues(is_leap_year) ==
    LET calc_length == Hours(is_leap_year)
    IN  [NewEPW EXCEPT
            !.is_leap_year = is_leap_year,
            !.location = TxtTok("-", 0),
            !.data = [i \in 1 .. NewEPW.num_of_fields |->
                        Collection([k \in 1 .. calc_length |->
                            IF i - 1 < 6 THEN DatetimeColumn(i - 1, k, is_leap_year)
                            ELSE MissingValue(i - 1)])],
            !.is_header_loaded = TRUE,
            !.is_data_loaded = TRUE]

\* ------------------------------------------------------------- the caller
\* the list a caller assigns to the values of a series: n numbers, all different
NewValues(n) == [k \in 1 .. n |-> IntVal(500 + k)]

\* epw.<field>.values = values, as in the usage of from_missing_values
AssignValues(r, field_number, values) ==
    IF r.exc # "none" THEN r
    ELSE [r EXCEPT !.self.data[field_number + 1].values = values]

\* the location setter
SetLocationProperty(r, loc) ==
    IF r.exc # "none" THEN r ELSE [r EXCEPT !.self.location = loc]

\* the required keys of a design-condition section
RequiredKeys(section) ==
    CASE section = "heating_dict" -> HeatingKeys
      [] section = "cooling_dict" -> CoolingKeys
      [] section = "extremes_dict" -> ExtremeKeys

\* _des_dict_check: the assertions pass; a dictionary is the list of the values
\* of its first keys, so that a shorter list lacks a required key
DesDictCheck(des_dict, req_keys) == des_dict = << >> \/ Len(des_dict) >= req_keys

\* a design-condition setter that assigns without the check
SetDesignDictionaryUnchecked(r, section, des_dict) ==
    IF r.exc # "none" THEN r ELSE [r EXCEPT !.self[section] = des_dict]

\* the setters of heating_, cooling_ and extreme_design_condition_dictionary
SetDesignDictionary(r, section, des_dict) ==
    IF r.exc # "none" THEN r
    ELSE IF ~DesDictCheck(des_dict, RequiredKeys(section))
    THEN [r EXCEPT !.exc = "AssertionError"]
    ELSE [r EXCEPT !.self[section] = des_dict]

\* the header property
HeaderProperty(r) ==
    IF r.exc # "none" THEN r ELSE [r EXCEPT !.exc = Header(r.self).exc]

\* ------------------------------------------------------------- data types
\* Texts that the data type code inspects character by character (names and
\* class names) are sequences of one-character strings.
LowerLetters ==
    << "a", "b", "c", "d", "e", "f", "g", "h", "i", "j", "k", "l", "m",
       "n", "o", "p", "q", "r", "s", "t", "u", "v", "w", "x", "y", "z" >>
UpperLetters ==
    << "A", "B", "C", "D", "E", "F", "G", "H", "I", "J", "K", "L", "M",
       "N", "O", "P", "Q", "R", "S", "T", "U", "V", "W", "X", "Y", "Z" >>

IsLower(c) == \E i \in 1 .. Len(LowerLetters) : LowerLetters[i] = c
IsUpper(c) == \E i \in 1 .. Len(UpperLetters) : UpperLetters[i] = c

\* one character of str.title(): upper case after a non-letter (after_letter
\* false), lower case after a letter
TitleChar(c, after_letter) ==
    IF after_letter /\ IsUpper(c)
    THEN LowerLetters[CHOOSE i \in 1 .. Len(UpperLetters) : UpperLetters[i] = c]
    ELSE IF ~after_letter /\ IsLower(c)
    THEN UpperLetters[CHOOSE i \in 1 .. Len(LowerLetters) : LowerLetters[i] = c]
    ELSE c

\* s.title().replace(' ', '')
TitleNoSpaces(s) ==
    SelectSeq([i \in 1 .. Len(s) |->
                  TitleChar(s[i], i > 1 /\ (IsLower(s[i - 1]) \/ IsUpper(s[i - 1])))],
              LAMBDA c : c # " ")

\* re.sub(r"(?<=\w)([A-Z])", r" \1", s): a space before every upper-case
\* letter that follows a word character (the texts of the model hold letters
\* and spaces only)
RECURSIVE SpaceBeforeCapitals(_, _)
SpaceBeforeCapitals(s, i) ==
    IF i > Len(s) THEN << >>
    ELSE IF i > 1 /\ (IsLower(s[i - 1]) \/ IsUpper(s[i - 1])) /\ IsUpper(s[i])
    THEN << " ", s[i] >> \o SpaceBeforeCapitals(s, i + 1)
    ELSE << s[i] >> \o SpaceBeforeCapitals(s, i + 1)

\* a name attribute: None, or a text
NoName == [none |-> TRUE, chars |-> << >>]
Text(s) == [none |-> FALSE, chars |-> s]

\* bounds of a data type, in tenths of its base unit; inf is -1 for -inf, 1 for +inf
NegInf == [inf |-> -1, t |-> 0]
PosInf == [inf |-> 1, t |-> 0]
Finite(t) == [inf |-> 0, t |-> t]

\* The data type classes the model imports. Temperature declares the units C, F
\* and K and the lowest value -273.1 C, DryBulbTemperature is a subclass of
\* it, ThermalCondition is a type with one unit, the bounds -3 and 3 and a
\* categorical map (unit_descr), GenericType takes its name and its unit from
\* the caller.
ClassChars(cls) ==
    CASE cls = "Temperature" -> << "T", "e", "m", "p", "e", "r", "a", "t", "u", "r", "e" >>
      [] cls = "DryBulbTemperature" ->
            << "D", "r", "y", "B", "u", "l", "b", "T", "e", "m", "p", "e", "r", "a", "t", "u", "r", "e" >>
      [] cls = "ThermalCondition" ->
            << "T", "h", "e", "r", "m", "a", "l", "C", "o", "n", "d", "i", "t", "i", "o", "n" >>
      [] cls = "GenericType" -> << "G", "e", "n", "e", "r", "i", "c", "T", "y", "p", "e" >>

\* unit_descr of ThermalCondition
UnitDescr ==
    [key \in -3 .. 3 |->
        << "Cold", "Cool", "Slightly Cool", "Neutral", "Slightly Warm", "Warm",
           "Hot" >>[key + 4]]

\* cls(name) and GenericType(name, unit)
NewType(cls, name) ==
    IF cls \in {"Temperature", "DryBulbTemperature"}
    THEN [cls |-> cls, name |-> name, units |-> << "C", "F", "K" >>,
          min |-> Finite(-2731), max |-> PosInf]
    ELSE [cls |-> cls, name |-> name, units |-> << "condition" >>,
          min |-> Finite(-30), max |-> Finite(30)]
NewGenericType(name, unit) ==
    [cls |-> "GenericType", name |-> name, units |-> << unit >>,
     min |-> NegInf, max |-> PosInf]

\* the name property
Name(self) ==
    IF self.name.none THEN SpaceBeforeCapitals(ClassChars(self.cls), 1)
    ELSE self.name.chars

IsUnitAcceptable(self, unit) == \E k \in 1 .. Len(self.units) : self.units[k] = unit

\* the methods _C_to_F, _F_to_C, _C_to_K and _K_to_C of Temperature, on tenths
ConvertTenths(from_unit, unit, t) ==
    CASE from_unit = "C" /\ unit = "F" -> 2 * t + 320
      [] from_unit = "F" /\ unit = "C" -> (t - 320) \div 2
      [] from_unit = "C" /\ unit = "K" -> t + 2731
      [] from_unit = "K" /\ unit = "C" -> t - 2731
      [] OTHER -> t

IsNumber(val) == val.kind \in {"int", "float"}

\* _is_numeric: the assertion passes
IsNumeric(values) == Len(values) = 0 \/ IsNumber(values[1])

\* what a call gives: the exception it raised, or "none" and the value returned
Raises(e) == [exc |-> e, value |-> << >>]
Returns(v) == [exc |-> "none", value |-> v]

\* [self._{from}_to_{base}(val) for val in values] unless from_unit is the base
ToBaseUnit(self, base_unit, from_unit, r) ==
    IF r.exc # "none" \/ from_unit = base_unit THEN r
    ELSE IF ~IsUnitAcceptable(self, from_unit) THEN Raises("ValueError")
    ELSE IF \E k \in 1 .. Len(r.value) : ~IsNumber(r.value[k]) THEN Raises("TypeError")
    ELSE Returns([k \in 1 .. Len(r.value) |->
                     FloatVal(ConvertTenths(from_unit, base_unit, Tenths(r.value[k])))])

\* the second step left out: the values stay in the base unit
FromBaseUnitKept(self, base_unit, unit, r) ==
    IF r.exc # "none" \/ unit = base_unit THEN r
    ELSE IF ~IsUnitAcceptable(self, unit) THEN Raises("ValueError")
    ELSE r

\* [self._{base}_to_{unit}(val) for val in values] unless unit is the base
FromBaseUnit(self, base_unit, unit, r) ==
    IF r.exc # "none" \/ unit = base_unit THEN r
    ELSE IF ~IsUnitAcceptable(self, unit) THEN Raises("ValueError")
    ELSE IF \E k \in 1 .. Len(r.value) : ~IsNumber(r.value[k]) THEN Raises("TypeError")
    ELSE Returns([k \in 1 .. Len(r.value) |->
                     FloatVal(ConvertTenths(base_unit, unit, Tenths(r.value[k])))])

ToUnitBase(self, base_unit, values, unit, from_unit) ==
    IF ~IsNumeric(values) THEN Raises("AssertionError")
    ELSE FromBaseUnit(self, base_unit, unit,
                      ToBaseUnit(self, base_unit, from_unit, Returns(values)))

\* to_unit of a type: its conversion core with the type's base unit
ToUnit(self, values, unit, from_unit) ==
    ToUnitBase(self, self.units[1], values, unit, from_unit)

\* the test of the loop of is_in_range, value < minimum or value > maximum,
\* stops at values[k]: a number out of the bounds, or a text (comparing a
\* text with a number raises TypeError in Python 3 and finds the text greater
\* in Python 2)
StopsAt(values, k, b) ==
    \/ ~IsNumber(values[k])
    \/ b.minimum.inf = 1
    \/ b.minimum.inf = 0 /\ Tenths(values[k]) < b.minimum.t
    \/ b.maximum.inf = -1
    \/ b.maximum.inf = 0 /\ Tenths(values[k]) > b.maximum.t

\* the first value the loop stops at, 0 if it runs to the end
FirstStop(values, b) ==
    IF \E k \in 1 .. Len(values) : StopsAt(values, k, b)
    THEN CHOOSE k \in 1 .. Len(values) :
            /\ StopsAt(values, k, b)
            /\ \A j \in 1 .. (k - 1) : ~StopsAt(values, j, b)
    ELSE 0

CheckValues(values, stop, raise_exception, python3) ==
    IF stop = 0 THEN Returns(TRUE)
    ELSE IF ~IsNumber(values[stop]) /\ python3 THEN Raises("TypeError")
    ELSE IF raise_exception THEN Raises("ValueError")
    ELSE Returns(FALSE)

\* the bounds of the type left in the base unit
BoundsInUnitUnconverted(self, unit) == [minimum |-> self.min, maximum |-> self.max]

\* self._{base}_to_{unit}(self.min) and self._{base}_to_{unit}(self.max)
BoundsInUnit(self, unit) ==
    [minimum |-> IF self.min.inf # 0 THEN self.min
                 ELSE Finite(ConvertTenths(self.units[1], unit, self.min.t)),
     maximum |-> IF self.max.inf # 0 THEN self.max
                 ELSE Finite(ConvertTenths(self.units[1], unit, self.max.t))]

\* is_in_range; unit "None" is the omitted unit
IsInRange(self, values, unit, raise_exception, python3) ==
    IF ~IsNumeric(values) THEN Raises("AssertionError")
    ELSE IF unit = "None" \/ unit = self.units[1]
    THEN CheckValues(values,
                     FirstStop(values, [minimum |-> self.min, maximum |-> self.max]),
                     raise_exception, python3)
    ELSE IF ~IsUnitAcceptable(self, unit) THEN Raises("ValueError")
    ELSE CheckValues(values, FirstStop(values, BoundsInUnit(self, unit)),
                     raise_exception, python3)

ToDict(self) ==
    [name |-> Name(self), data_type |-> self.cls, base_unit |-> self.units[1],
     type |-> "DataTypeBase"]

\* _DataTypeEnumeration()._TYPES: every subclass of DataTypeBase but GenericType
TypeNames == {"Temperature", "DryBulbTemperature", "ThermalCondition"}

\* the registry after from_dict looked at cls._type_enumeration: the attribute
\* is found on cls or on a class cls is derived from, and set on cls if not
Enumerate(cls, registry) ==
    IF \/ cls \in registry.set_on
       \/ "DataTypeBase" \in registry.set_on
       \/ cls = "DryBulbTemperature" /\ "Temperature" \in registry.set_on
    THEN registry
    ELSE [set_on |-> registry.set_on \cup {cls}, built |-> registry.built + 1]

\* the known-class branch of from_dict
KnownType(data) ==
    IF ClassChars(data.data_type) = TitleNoSpaces(data.name)
    THEN NewType(data.data_type, NoName)
    ELSE NewType(data.data_type, Text(data.name))

\* cls.from_dict(data): the outcome and the registry after the call
FromDict(cls, data, registry) ==
    [outcome |-> IF data.data_type = "GenericType"
                 THEN Returns(NewGenericType(Text(data.name), data.base_unit))
                 ELSE IF data.data_type \in TypeNames THEN Returns(KnownType(data))
                 ELSE Raises("ValueError"),
     registry |-> Enumerate(cls, registry)]

\* ------------------------------------------------------------- Python floats
\* The floats of the legend are kept exactly: [neg, m] with the magnitude
\* m = << I, F1, F2, F3 >> standing for I + F1/B + F2/B^2 + F3/B^3, B = 2^20.
\* Every double below 2^13 whose lowest bit is 2^-60 or more has this form, and
\* the operations below round to the 53 bits of a double, to nearest, ties to
\* even, as the interpreter does.
Limb == 2 ^ 20

BitLen(n) == IF n = 0 THEN 0 ELSE CHOOSE k \in 1 .. 20 : 2 ^ (k - 1) <= n /\ n < 2 ^ k

\* limbs that outgrew B carried to the next limb
Carry(m) ==
    << m[1] + (m[2] + (m[3] + m[4] \div Limb) \div Limb) \div Limb,
       (m[2] + (m[3] + m[4] \div Limb) \div Limb) % Limb,
       (m[3] + m[4] \div Limb) % Limb,
       m[4] % Limb >>

\* m with its lowest t bits rounded away; sticky tells that the exact value
\* has further bits below m
RoundBits(m, t, sticky) ==
    IF t = 0 THEN m
    ELSE IF \/ m[4] % (2 ^ t) > 2 ^ (t - 1)
            \/ /\ m[4] % (2 ^ t) = 2 ^ (t - 1)
               /\ \/ sticky
                  \/ t = 20 /\ m[3] % 2 = 1
                  \/ t < 20 /\ (m[4] \div (2 ^ t)) % 2 = 1
    THEN Carry(<< m[1], m[2], m[3], m[4] - (m[4] % (2 ^ t)) + 2 ^ t >>)
    ELSE << m[1], m[2], m[3], m[4] - (m[4] % (2 ^ t)) >>

\* the nearest double: the bits beyond the leading 53 are rounded away
Round53(m, sticky) ==
    IF m[1] > 0 THEN RoundBits(m, 7 + BitLen(m[1]), sticky)
    ELSE IF BitLen(m[2]) > 13 THEN RoundBits(m, BitLen(m[2]) - 13, sticky)
    ELSE m

\* d / n for integers d >= 0 and n > 0, by long division
FloatDiv(d, n) ==
    Round53(<< d \div n,
               ((d % n) * Limb) \div n,
               ((((d % n) * Limb) % n) * Limb) \div n,
               ((((((d % n) * Limb) % n) * Limb) % n) * Limb) \div n >>,
            ((((((d % n) * Limb) % n) * Limb) % n) * Limb) % n # 0)

\* i * x for an integer i >= 0 and a magnitude x
FloatMul(i, x) == Round53(Carry(<< i * x[1], i * x[2], i * x[3], i * x[4] >>), FALSE)

\* k + x for an integer k and a magnitude x
FloatAdd(k, x) ==
    IF k >= 0 \/ x[1] >= -k
    THEN [neg |-> FALSE, m |-> Round53(<< x[1] + k, x[2], x[3], x[4] >>, FALSE)]
    ELSE [neg |-> TRUE,
          m |-> Round53(Carry(<< -k - x[1] - 1, Limb - 1 - x[2], Limb - 1 - x[3],
                                 Limb - x[4] >>), FALSE)]

\* float(k)
FloatOf(k) == [neg |-> k < 0, m |-> << IF k < 0 THEN -k ELSE k, 0, 0, 0 >>]

\* the integer nearest to a magnitude, ties to even
NearestInt(m) ==
    IF \/ 2 * m[2] > Limb
       \/ 2 * m[2] = Limb /\ (m[3] > 0 \/ m[4] > 0 \/ m[1] % 2 = 1)
    THEN m[1] + 1 ELSE m[1]

\* '%.{n}f' % x: the sign and the digits, as a count of units of 10^-n
FormatFloat(decimal_count, x) ==
    [neg |-> x.neg, decimals |-> decimal_count,
     units |-> NearestInt(Carry(<< (10 ^ decimal_count) * x.m[1],
                                   (10 ^ decimal_count) * x.m[2],
                                   (10 ^ decimal_count) * x.m[3],
                                   (10 ^ decimal_count) * x.m[4] >>))]

\* ------------------------------------------------------------- legend parameters
\* None is the empty tuple and a given value v the tuple << v >>. Lengths
\* (segment_height, segment_width, text_height, coordinates) are in hundredths.
None == << >>

\* LegendParameters(): every attribute at its default
DefaultParameters ==
    [min |-> None, max |-> None,
     segment_count |-> 11, is_segment_count_default |-> TRUE,
     colors |-> 10,
     title |-> << >>, is_title_default |-> TRUE,
     ordinal_dictionary |-> None, decimal_count |-> 2, vertical |-> TRUE,
     base_plane |-> << 0, 0, 0 >>, is_base_plane_default |-> TRUE,
     segment_height |-> 100, is_segment_height_default |-> TRUE,
     segment_width |-> 100, is_segment_width_default |-> TRUE,
     text_height |-> None, is_text_height_default |-> TRUE]

\* a setter whose assertion fails: the object is as it was
Fails(par) == [exc |-> "AssertionError", value |-> par]

\* the min setter without the comparison with max
SetMinUnchecked(par, minimum) == Returns([par EXCEPT !.min = minimum])

SetMin(par, minimum) ==
    IF minimum # None /\ par.max # None /\ ~(minimum[1] <= par.max[1])
    THEN Fails(par)
    ELSE Returns([par EXCEPT !.min = minimum])

SetMax(par, maximum) ==
    IF maximum # None /\ par.min # None /\ ~(maximum[1] >= par.min[1])
    THEN Fails(par)
    ELSE Returns([par EXCEPT !.max = maximum])

\* the segment_count setter assigning before it checks
SetSegmentCountLate(par, nos) ==
    IF nos = None
    THEN Returns([par EXCEPT !.segment_count = 11, !.is_segment_count_default = TRUE])
    ELSE IF ~(nos[1] >= 2)
    THEN Fails([par EXCEPT !.segment_count = nos[1], !.is_segment_count_default = FALSE])
    ELSE Returns([par EXCEPT !.segment_count = nos[1],
                             !.is_segment_count_default = FALSE])

SetSegmentCount(par, nos) ==
    IF nos = None
    THEN Returns([par EXCEPT !.segment_count = 11, !.is_segment_count_default = TRUE])
    ELSE IF ~(nos[1] >= 2) THEN Fails(par)
    ELSE Returns([par EXCEPT !.segment_count = nos[1],
                             !.is_segment_count_default = FALSE])

\* the setters of colors (a list of v colours), title, ordinal_dictionary,
\* vertical, base_plane, segment_height, segment_width and text_height
SetOther(par, attribute, v) ==
    CASE attribute = "colors" ->
            IF v = None THEN Returns([par EXCEPT !.colors = 10])
            ELSE IF ~(v[1] > 1) THEN Fails(par)
            ELSE Returns([par EXCEPT !.colors = v[1]])
      [] attribute = "title" ->
            IF v = None
            THEN Returns([par EXCEPT !.title = << >>, !.is_title_default = TRUE])
            ELSE Returns([par EXCEPT !.title = v[1], !.is_title_default = FALSE])
      [] attribute = "ordinal_dictionary" ->
            Returns([par EXCEPT !.ordinal_dictionary = v])
      [] attribute = "vertical" ->
            Returns([par EXCEPT !.vertical = (v = None \/ v[1])])
      [] attribute = "base_plane" ->
            IF v = None
            THEN Returns([par EXCEPT !.base_plane = << 0, 0, 0 >>,
                                     !.is_base_plane_default = TRUE])
            ELSE Returns([par EXCEPT !.base_plane = v[1],
                                     !.is_base_plane_default = FALSE])
      [] attribute = "segment_height" ->
            IF v = None
            THEN Returns([par EXCEPT !.segment_height = 100,
                                     !.is_segment_height_default = TRUE])
            ELSE IF ~(v[1] > 0) THEN Fails(par)
            ELSE Returns([par EXCEPT !.segment_height = v[1],
                                     !.is_segment_height_default = FALSE])
      [] attribute = "segment_width" ->
            IF v = None
            THEN Returns([par EXCEPT !.segment_width = 100,
                                     !.is_segment_width_default = TRUE])
            ELSE IF ~(v[1] > 0) THEN Fails(par)
            ELSE Returns([par EXCEPT !.segment_width = v[1],
                                     !.is_segment_width_default = FALSE])
      [] attribute = "text_height" ->
            IF v = None
            THEN Returns([par EXCEPT !.text_height = None,
                                     !.is_text_height_default = TRUE])
            ELSE IF ~(v[1] > 0) THEN Fails(par)
            ELSE Returns([par EXCEPT !.text_height = v,
                                     !.is_text_height_default = FALSE])

\* par.attribute = v
SetAttribute(par, attribute, v) ==
    CASE attribute = "min" -> SetMin(par, v)
      [] attribute = "max" -> SetMax(par, v)
      [] attribute = "segment_count" -> SetSegmentCount(par, v)
      [] OTHER -> SetOther(par, attribute, v)

\* the next assignment of a sequence of assignments, skipped once one has raised
Then(r, attribute, v) ==
    IF r.exc # "none" THEN r ELSE SetAttribute(r.value, attribute, v)

\* LegendParameters(min, max, segment_count): the setters in the order of __init__
NewParameters(min, max, segment_count) ==
    Then(Then(Then(Returns(DefaultParameters), "min", min), "max", max),
         "segment_count", segment_count)

\* the text_height and segment_width properties
TextHeight(par) ==
    IF par.is_text_height_default THEN (par.segment_height * 33) \div 100
    ELSE par.text_height[1]
SegmentWidth(par) ==
    IF ~par.vertical /\ par.is_segment_width_default THEN TextHeight(par) * 5
    ELSE par.segment_width

\* __copy__: a new object made from min, max and segment_count (colors,
\* title and base_plane go through their setters too), then every other
\* attribute and the six flags copied
Duplicate(par) ==
    [NewParameters(par.min, par.max, << par.segment_count >>).value EXCEPT
        !.colors = par.colors,
        !.title = par.title,
        !.base_plane = par.base_plane,
        !.ordinal_dictionary = par.ordinal_dictionary,
        !.decimal_count = par.decimal_count,
        !.vertical = par.vertical,
        !.segment_height = par.segment_height,
        !.segment_width = par.segment_width,
        !.text_height = par.text_height,
        !.is_segment_count_default = par.is_segment_count_default,
        !.is_title_default = par.is_title_default,
        !.is_base_plane_default = par.is_base_plane_default,
        !.is_segment_height_default = par.is_segment_height_default,
        !.is_segment_width_default = par.is_segment_width_default,
        !.is_text_height_default = par.is_text_height_default]

\* ------------------------------------------------------------- Legend
\* min and max of a collection of integers
MinOf(numbers) == CHOOSE v \in numbers : \A w \in numbers : v <= w
MaxOf(numbers) == CHOOSE v \in numbers : \A w \in numbers : v >= w

\* the elements of a list
Elements(values) == { values[k] : k \in 1 .. Len(values) }

\* len(str(int(n))) for the integers of the model
DigitLen(n) ==
    IF n <= -10 THEN 3 ELSE IF n < 0 \/ n >= 10 THEN 2 ELSE 1

\* an assignment made only under a condition
ThenIf(r, condition, attribute, v) == IF condition THEN Then(r, attribute, v) ELSE r

\* the horizontal segment_width of Legend.__init__
HorizontalWidth(r) ==
    ThenIf(r, r.exc = "none" /\ ~r.value.vertical /\ r.value.is_segment_width_default,
           "segment_width",
           << TextHeight(r.value)
              * (DigitLen(r.value.max[1]) + r.value.decimal_count + 2) >>)

\* the Legend object made of the parameters own, a duplicate or a new
\* LegendParameters(): its min, max and segment_width set where they are default
LegendWith(values, own, r) ==
    IF r.exc # "none" THEN Raises(r.exc)
    ELSE Returns([values |-> values, legend_parameters |-> r.value,
                  is_min_default |-> own.min = None,
                  is_max_default |-> own.max = None])

\* the rest of Legend.__init__, own being self._legend_par
LegendOf(values, own) ==
    LegendWith(values, own,
               HorizontalWidth(
                   ThenIf(ThenIf(Returns(own), own.min = None,
                                 "min", << MinOf(Elements(values)) >>),
                          own.max = None, "max", << MaxOf(Elements(values)) >>)))

\* the caller's object kept as self._legend_par
OwnParametersShared(legend_parameters) ==
    IF legend_parameters = None THEN [ref |-> "new", value |-> DefaultParameters]
    ELSE [ref |-> "caller", value |-> legend_parameters]

\* self._legend_par of Legend.__init__: a new object in both branches, the
\* duplicate of the caller's object or LegendParameters()
OwnParameters(legend_parameters) ==
    IF legend_parameters = None THEN [ref |-> "new", value |-> DefaultParameters]
    ELSE [ref |-> "new", value |-> Duplicate(legend_parameters)]

\* Legend(values, legend_parameters)
NewLegend(values, legend_parameters) ==
    LegendOf(values, OwnParameters(legend_parameters).value)

\* segment_numbers: min + i * _seg_stp for i in range(segment_count)
SegmentNumbers(self) ==
    [k \in 1 .. self.legend_parameters.segment_count |->
        FloatAdd(self.legend_parameters.min[1],
                 FloatMul(k - 1,
                          FloatDiv(self.legend_parameters.max[1]
                                   - self.legend_parameters.min[1],
                                   self.legend_parameters.segment_count - 1)))]

\* ordinal_dictionary[x], '' on a KeyError: a float is the key it equals
Lookup(ordinal_dictionary, x) ==
    IF /\ x.m[2] = 0 /\ x.m[3] = 0 /\ x.m[4] = 0
       /\ (IF x.neg THEN -x.m[1] ELSE x.m[1]) \in DOMAIN ordinal_dictionary
    THEN ordinal_dictionary[IF x.neg THEN -x.m[1] ELSE x.m[1]]
    ELSE ""

\* labels given to the integer nearest to each boundary
SegmentTextNearest(self) ==
    IF self.legend_parameters.ordinal_dictionary = None
    THEN [k \in DOMAIN SegmentNumbers(self) |->
             FormatFloat(self.legend_parameters.decimal_count, SegmentNumbers(self)[k])]
    ELSE [k \in DOMAIN SegmentNumbers(self) |->
             Lookup(self.legend_parameters.ordinal_dictionary[1],
                    [neg |-> SegmentNumbers(self)[k].neg,
                     m |-> << NearestInt(SegmentNumbers(self)[k].m), 0, 0, 0 >>])]

\* segment_text (include_larger_smaller is left at its default, False)
SegmentText(self) ==
    IF self.legend_parameters.ordinal_dictionary = None
    THEN [k \in DOMAIN SegmentNumbers(self) |->
             FormatFloat(self.legend_parameters.decimal_count, SegmentNumbers(self)[k])]
    ELSE [k \in DOMAIN SegmentNumbers(self) |->
             Lookup(self.legend_parameters.ordinal_dictionary[1],
                    SegmentNumbers(self)[k])]

\* ------------------------------------------------------------- GraphicContainer
\* unit_descr of a data type
UnitDescrOf(data_type) ==
    IF data_type.cls = "ThermalCondition" THEN << UnitDescr >> ELSE None

\* sorted_keys.index(x): the number of keys below x, ValueError when x is no key
KeyIndex(ordinal_dictionary, x) ==
    IF x \in DOMAIN ordinal_dictionary
    THEN Returns(Cardinality({ key \in DOMAIN ordinal_dictionary : key < x }))
    ELSE Raises("ValueError")

\* the default title: the unit, with the name of the data type when horizontal
GraphicTitle(r, data_type, unit) ==
    IF r.exc # "none" \/ ~r.value.is_title_default THEN r
    ELSE IF data_type # None
    THEN IF ~IsUnitAcceptable(data_type, IF unit = None THEN data_type.units[1]
                                          ELSE unit[1])
         THEN [exc |-> "ValueError", value |-> r.value]
         ELSE Then(r, "title",
                   << IF r.value.vertical
                      THEN << IF unit = None THEN data_type.units[1] ELSE unit[1] >>
                      ELSE << Name(data_type),
                              IF unit = None THEN data_type.units[1] ELSE unit[1] >> >>)
    ELSE ThenIf(r, unit # None, "title", << unit >>)

\* segment_count = len(sorted_keys[min_i:max_i + 1]), unless index raises
CategoryCount(r, keys) ==
    IF r.exc # "none" \/ ~r.value.is_segment_count_default THEN r
    ELSE IF \/ KeyIndex(keys, r.value.min[1]).exc # "none"
            \/ KeyIndex(keys, r.value.max[1]).exc # "none"
    THEN [exc |-> "ValueError", value |-> r.value]
    ELSE Then(r, "segment_count",
              << KeyIndex(keys, r.value.max[1]).value + 1
                 - KeyIndex(keys, r.value.min[1]).value >>)

\* the categories with min and max set whatever the caller gave
CategoriesAlways(r, legend, data_type) ==
    IF \/ r.exc # "none" \/ data_type = None \/ UnitDescrOf(data_type) = None
       \/ r.value.ordinal_dictionary # None
    THEN r
    ELSE CategoryCount(
             Then(Then(Then(r, "ordinal_dictionary", UnitDescrOf(data_type)),
                       "min", << MinOf(DOMAIN UnitDescrOf(data_type)[1]) >>),
                  "max", << MaxOf(DOMAIN UnitDescrOf(data_type)[1]) >>),
             UnitDescrOf(data_type)[1])

\* the ordinal dictionary, min, max and segment_count of a data type that has
\* a unit_descr
Categories(r, legend, data_type) ==
    IF \/ r.exc # "none" \/ data_type = None \/ UnitDescrOf(data_type) = None
       \/ r.value.ordinal_dictionary # None
    THEN r
    ELSE CategoryCount(
             ThenIf(ThenIf(Then(r, "ordinal_dictionary", UnitDescrOf(data_type)),
                           legend.is_min_default,
                           "min", << MinOf(DOMAIN UnitDescrOf(data_type)[1]) >>),
                    legend.is_max_default,
                    "max", << MaxOf(DOMAIN UnitDescrOf(data_type)[1]) >>),
             UnitDescrOf(data_type)[1])

\* the default segment_height, a twentieth of the box along the legend
GraphicHeight(r, min_point, max_point) ==
    ThenIf(r, r.exc = "none" /\ r.value.is_segment_height_default, "segment_height",
           << IF r.value.vertical THEN (max_point[2] - min_point[2]) \div 20
              ELSE (max_point[1] - min_point[1]) \div 20 >>)

\* the default base plane, beside the box or above it
GraphicPlane(r, min_point, max_point) ==
    ThenIf(r, r.exc = "none" /\ r.value.is_base_plane_default, "base_plane",
           << IF r.value.vertical
              THEN << max_point[1] + SegmentWidth(r.value), min_point[2], min_point[3] >>
              ELSE << max_point[1], max_point[2] + 3 * TextHeight(r.value),
                      min_point[3] >> >>)

\* the legend of the container, with the parameters r.value
GraphicWith(legend, r) ==
    IF r.exc # "none" THEN Raises(r.exc)
    ELSE Returns([legend EXCEPT !.legend_parameters = r.value])

\* the legend of GraphicContainer(values, min_point, max_point,
\* legend_parameters, data_type, unit), made by Legend(values, legend_parameters)
GraphicLegend(made, min_point, max_point, data_type, unit) ==
    IF made.exc # "none" THEN made
    ELSE GraphicWith(made.value,
             GraphicPlane(
                 GraphicHeight(
                     Categories(GraphicTitle(Returns(made.value.legend_parameters),
                                             data_type, unit),
                                made.value, data_type),
                     min_point, max_point),
                 min_point, max_point))

\* ------------------------------------------------------------- the state machine
VARIABLES
    file,           \* the .epw file the object was made for, NoFile if none
    epw,            \* the EPW object
    op,             \* the last operation called on it
    exc,            \* the exception that operation raised, "none" if it returned
    parsed_header,  \* whether it parsed the header lines of the file
    parsed_data,    \* whether it parsed the data lines of the file
    convs,          \* the collection conversions it made
    write_called,   \* whether it called write_to_file
    written,        \* the lines write_to_file wrote
    failed_loads,   \* the data loads that have failed so far
    data_type,      \* the data type object the last data type call was made on
    args,           \* the arguments of that call
    result,         \* what the call returned
    registry,       \* the classes whose _type_enumeration is set, and the
                    \* number of _DataTypeEnumeration objects built
    par,            \* the LegendParameters object of the caller, None if none
    legend          \* the Legend object made, alone or in a GraphicContainer

vars == << file, epw, op, exc, parsed_header, parsed_data, convs, write_called,
           written, failed_loads, data_type, args, result, registry, par, legend >>

\* the fields whose series the caller of the model reads
TouchedFields == {6, 14}
\* the series the caller assigns a list to, with the length of the list
Assignments == { << 6, 0 >>, << 6, YearHours - 1 >>, << 6, YearHours >>, << 14, 0 >> }
\* the hours a caller of to_wea asks for: << >> is the default, all hours
WeaRequests == {<< >>, << 1 >>}

Returned(name, r) ==
    /\ failed_loads < MaxFailedLoads
    /\ epw' = r.self
    /\ op' = name
    /\ exc' = r.exc
    /\ parsed_header' = r.parsed_header
    /\ parsed_data' = r.parsed_data
    /\ convs' = r.convs
    /\ write_called' = r.write_called
    /\ written' = r.written
    /\ failed_loads' = IF r.parsed_data /\ ~r.self.is_data_loaded
                       THEN failed_loads + 1 ELSE failed_loads
    /\ UNCHANGED << file, data_type, args, result, registry, par, legend >>

Init ==
    /\ \/ /\ file \in Files
          /\ epw = NewEPW
          /\ op = "init"
       \/ /\ file = NoFile
          /\ epw \in { FromMissingValues(leap) : leap \in BOOLEAN }
          /\ op = "from_missing_values"
    /\ exc = "none"
    /\ parsed_header = FALSE
    /\ parsed_data = FALSE
    /\ convs = 0
    /\ write_called = FALSE
    /\ written = << >>
    /\ failed_loads = 0
    /\ data_type = << >>
    /\ args = << >>
    /\ result = << >>
    /\ registry = [set_on |-> {}, built |-> 0]
    /\ par = << >>
    /\ legend = << >>

\* a header property is read: location, metadata, a design-condition or week
\* dictionary, the ground temperatures, is_leap_year
ReadHeaderProperty == Returned("header_property", LoadHeaderCheck(epw, file))

\* the header property is read
ReadHeader == Returned("header", HeaderProperty(LoadHeaderCheck(epw, file)))

SetLocation ==
    Returned("set_location",
             SetLocationProperty(LoadHeaderCheck(epw, file), TxtTok("city", 2)))

ReadField ==
    \E field_number \in TouchedFields :
        Returned("field", GetDataByField(epw, file, field_number))

SetValues ==
    \E a \in Assignments :
        Returned("set_values",
                 AssignValues(GetDataByField(epw, file, a[1]), a[1], NewValues(a[2])))

CallConvertToIP == Returned("convert_to_ip", ConvertToIP(epw, file))

CallConvertToSI == Returned("convert_to_si", ConvertToSI(epw, file))

CallSave ==
    \E write_ok \in BOOLEAN : Returned("save", Save(epw, file, write_ok))

CallToWea ==
    \E hoys \in WeaRequests, write_ok \in BOOLEAN :
        Returned("to_wea", ToWea(epw, file, hoys, write_ok))

Next ==
    \/ ReadHeaderProperty
    \/ ReadHeader
    \/ SetLocation
    \/ ReadField
    \/ SetValues
    \/ CallConvertToIP
    \/ CallConvertToSI
    \/ CallSave
    \/ CallToWea

Spec == Init /\ [][Next]_vars

\* ------------------------------------------------------------- header calls
\* the values a caller assigns: a text, and a dictionary with its first n keys
CallerText == TxtTok("caller", 0)
CallerDict(n) == [k \in 1 .. n |-> TxtTok("caller", k)]

\* an EPW made for a file, nothing loaded yet
HeaderInit ==
    /\ file \in DesignFiles
    /\ epw = NewEPW
    /\ op = "init"
    /\ exc = "none"
    /\ parsed_header = FALSE
    /\ parsed_data = FALSE
    /\ convs = 0
    /\ write_called = FALSE
    /\ written = << >>
    /\ failed_loads = 0
    /\ data_type = << >>
    /\ args = << >>
    /\ result = << >>
    /\ registry = [set_on |-> {}, built |-> 0]
    /\ par = << >>
    /\ legend = << >>

\* a design-condition dictionary is assigned: complete, or lacking its last
\* required key
AssignDesignDictionary ==
    \E section \in {"heating_dict", "cooling_dict", "extremes_dict"} :
        \E n \in {RequiredKeys(section) - 1, RequiredKeys(section)} :
            Returned("set_" \o section,
                     SetDesignDictionary(LoadHeaderCheck(epw, file), section,
                                         CallerDict(n)))

\* epw.comments_1 = v or epw.daylight_savings_start = v: plain attributes,
\* assigned without a load
AssignPlainAttribute ==
    \E attribute \in {"comments_1", "daylight_savings_start"} :
        Returned("set_" \o attribute,
                 Did([epw EXCEPT ![attribute] = CallerText], "none"))

HeaderNext ==
    \/ ReadHeaderProperty
    \/ ReadHeader
    \/ SetLocation
    \/ ReadField
    \/ AssignDesignDictionary
    \/ AssignPlainAttribute

HeaderSpec == HeaderInit /\ [][HeaderNext]_vars

\* ------------------------------------------------------------- data type calls
\* longest list of values a call is given
MaxValues == 2

\* the lists of values: numbers below, at and above the bounds of the types,
\* and a text
ValueLists ==
    UNION { [1 .. n -> { FloatVal(-3000), FloatVal(-2731), FloatVal(0), IntVal(3),
                         IntVal(4), StrVal(TxtTok("a", 0)) }] : n \in 0 .. MaxValues }

\* the data type objects of the model: default names and names given by the caller
TypeObjects ==
    { NewType(cls, NoName) : cls \in TypeNames }
    \cup { NewType("Temperature", Text(<< "t", "e", "m", "p", "e", "r", "a", "t", "u", "r", "e" >>)) }
    \cup { NewType("DryBulbTemperature", Text(s)) :
             s \in { << "D", "r", "y", " ", "B", "u", "l", "b", " ", "T", "e", "m", "p", "e", "r", "a", "t", "u", "r", "e" >>,
                     << "d", "r", "y", " ", "b", "u", "l", "b", " ", "t", "e", "m", "p", "e", "r", "a", "t", "u", "r", "e" >>,
                     << "D", "R", "Y", " ", "B", "U", "L", "B", " ", "T", "E", "M", "P", "E", "R", "A", "T", "U", "R", "E" >>,
                     << "O", "u", "t", "d", "o", "o", "r", " ", "T", "e", "m", "p", "e", "r", "a", "t", "u", "r", "e" >> } }
    \cup { NewGenericType(Text(s), "widgets") :
             s \in { << "M", "y", " ", "T", "y", "p", "e" >>,
                     << "d", "r", "y", " ", "b", "u", "l", "b", " ", "t", "e", "m", "p", "e", "r", "a", "t", "u", "r", "e" >> } }

\* the to_unit and is_in_range calls of the model: on a Temperature and on a
\* ThermalCondition, with each unit of the type and one that is not ("X")
ToUnitCalls ==
    { [call |-> "to_unit", self |-> c[1], values |-> c[2], unit |-> c[3],
       from_unit |-> c[4]] :
        c \in { d \in { NewType("Temperature", NoName),
                        NewType("ThermalCondition", NoName) }
                      \X ValueLists \X {"C", "F", "K", "condition", "X"}
                      \X {"C", "F", "K", "condition", "X"} :
                    /\ d[3] = "X" \/ IsUnitAcceptable(d[1], d[3])
                    /\ d[4] = "X" \/ IsUnitAcceptable(d[1], d[4]) } }

IsInRangeCalls ==
    { [call |-> "is_in_range", self |-> c[1], values |-> c[2], unit |-> c[3],
       raise_exception |-> c[4], python3 |-> c[5]] :
        c \in { d \in { NewType("Temperature", NoName),
                        NewType("ThermalCondition", NoName) }
                      \X ValueLists \X {"C", "F", "K", "condition", "X", "None"}
                      \X BOOLEAN \X BOOLEAN :
                    d[3] \in {"X", "None"} \/ IsUnitAcceptable(d[1], d[3]) } }

\* a dictionary whose data_type no class has
UnknownData ==
    [name |-> << "U", "n", "k", "n", "o", "w", "n" >>, data_type |-> "Unknown",
     base_unit |-> "C", type |-> "DataTypeBase"]

\* a program that is about to make one to_unit or is_in_range call, or a
\* sequence of from_dict calls; no EPW object takes part
TypeInit ==
    /\ file = NoFile
    /\ epw = NewEPW
    /\ parsed_header = FALSE
    /\ parsed_data = FALSE
    /\ convs = 0
    /\ write_called = FALSE
    /\ written = << >>
    /\ failed_loads = 0
    /\ op = "init"
    /\ exc = "none"
    /\ \/ /\ args \in ToUnitCalls \cup IsInRangeCalls
          /\ data_type = args.self
       \/ /\ args = [call |-> "from_dict"]
          /\ data_type = << >>
    /\ result = << >>
    /\ registry = [set_on |-> {}, built |-> 0]
    /\ par = << >>
    /\ legend = << >>

TypeReturned(name, self, a, r, reg) ==
    /\ op' = name
    /\ exc' = r.exc
    /\ data_type' = self
    /\ args' = a
    /\ result' = r.value
    /\ registry' = reg
    /\ UNCHANGED << file, epw, parsed_header, parsed_data, convs, write_called,
                    written, failed_loads, par, legend >>

CallToUnit ==
    /\ op = "init"
    /\ args.call = "to_unit"
    /\ TypeReturned("to_unit", data_type, args,
                    ToUnit(data_type, args.values, args.unit, args.from_unit),
                    registry)

CallIsInRange ==
    /\ op = "init"
    /\ args.call = "is_in_range"
    /\ TypeReturned("is_in_range", data_type, args,
                    IsInRange(data_type, args.values, args.unit,
                              args.raise_exception, args.python3),
                    registry)

FromDictReturned(self, cls, data, r) ==
    /\ args.call = "from_dict"
    /\ TypeReturned("from_dict", self,
                    [call |-> "from_dict", cls |-> cls, data |-> data],
                    r.outcome, r.registry)

\* cls.from_dict(self.to_dict())
CallFromDict ==
    \E cls \in {"DataTypeBase", "Temperature", "DryBulbTemperature"},
       self \in TypeObjects :
        FromDictReturned(self, cls, ToDict(self),
                         FromDict(cls, ToDict(self), registry))

\* cls.from_dict(data) with a data_type no class has
CallFromDictUnknown ==
    \E cls \in {"DataTypeBase", "Temperature", "DryBulbTemperature"} :
        FromDictReturned(<< >>, cls, UnknownData,
                         FromDict(cls, UnknownData, registry))

TypeNext ==
    \/ CallToUnit
    \/ CallIsInRange
    \/ CallFromDict
    \/ CallFromDictUnknown

TypeSpec == TypeInit /\ [][TypeNext]_vars

\* ------------------------------------------------------------- legend calls
\* a dictionary of the caller
OwnDictionary == [key \in {-1, 0, 1} |-> << "Cold", "Neutral", "Hot" >>[key + 2]]

\* the LegendParameters objects a caller passes: made by the constructor, then
\* given an ordinal dictionary, an orientation and a title or not
CallerParameters ==
    { Then(Then(Then(NewParameters(c[1], c[2], c[3]),
                     "ordinal_dictionary", c[4]), "vertical", c[5]), "title", c[6]).value :
        c \in {None, << -4 >>, << -1 >>} \X {None, << 1 >>}
              \X {None, << 3 >>, << 12 >>}
              \X {None, << UnitDescr >>, << OwnDictionary >>}
              \X {None, << FALSE >>} \X {None, << << "Comfort" >> >>} }

\* the lists of values and the corners of the bounding boxes of the model
LegendValues == { << 0, 1, 2, 3, 4, 5, 6, 7, 8, 9 >>, << 0, 15 >>, << -1, 1 >>, << -5, -4 >> }
MaxPoints == { << 4000, 4000, 0 >>, << 4000, 0, 0 >> }

LegendCalls ==
    [call : {"Legend"}, values : LegendValues,
     legend_parameters : CallerParameters \cup {None}]
GraphicCalls ==
    [call : {"GraphicContainer"}, values : { << -1, 1 >>, << -5, -4 >>, << 4, 5 >> },
     min_point : { << 0, 0, 0 >> }, max_point : MaxPoints,
     legend_parameters : CallerParameters \cup {None},
     data_type : { None, NewType("ThermalCondition", NoName),
                   NewType("Temperature", NoName) },
     unit : { None, << "C" >> }]

\* a program that is about to make a Legend or a GraphicContainer; no EPW
\* object takes part
LegendInit ==
    /\ file = NoFile
    /\ epw = NewEPW
    /\ parsed_header = FALSE
    /\ parsed_data = FALSE
    /\ convs = 0
    /\ write_called = FALSE
    /\ written = << >>
    /\ failed_loads = 0
    /\ op = "init"
    /\ exc = "none"
    /\ args \in LegendCalls \cup GraphicCalls
    /\ par = args.legend_parameters
    /\ legend = None
    /\ data_type = IF args.call = "Legend" THEN None ELSE args.data_type
    /\ result = << >>
    /\ registry = [set_on |-> {}, built |-> 0]

LegendReturned(name, a, p, r) ==
    /\ op' = name
    /\ exc' = r.exc
    /\ args' = a
    /\ par' = p
    /\ legend' = r.value
    /\ UNCHANGED << file, epw, parsed_header, parsed_data, convs, write_called,
                    written, failed_loads, data_type, result, registry >>

\* the caller's object after a constructor returned r: the constructors write
\* to self._legend_par only, which the caller sees where it is the caller's
\* own object
CallerAfter(legend_parameters, r) ==
    IF OwnParameters(legend_parameters).ref = "caller" /\ r.exc = "none"
    THEN r.value.legend_parameters
    ELSE legend_parameters

CallLegend ==
    /\ op = "init"
    /\ args.call = "Legend"
    /\ LegendReturned("Legend", args,
                      CallerAfter(par, NewLegend(args.values, par)),
                      NewLegend(args.values, par))

CallGraphicContainer ==
    /\ op = "init"
    /\ args.call = "GraphicContainer"
    /\ LegendReturned("GraphicContainer", args,
                      CallerAfter(par,
                                  GraphicLegend(NewLegend(args.values, par),
                                                args.min_point, args.max_point,
                                                data_type, args.unit)),
                      GraphicLegend(NewLegend(args.values, par), args.min_point,
                                    args.max_point, data_type, args.unit))

\* an assignment that raised leaves the object as the setter left it
Assigned(self, r) == [exc |-> r.exc, value |-> [self EXCEPT !.legend_parameters = r.value]]

\* legend.legend_parameters.attribute = v
AssignLegendParameter ==
    /\ legend # None
    /\ \E a \in { << "segment_count", << 5 >> >>, << "segment_count", << 3 >> >>,
                  << "min", << -1 >> >>, << "max", << 1 >> >> } :
          LegendReturned("assign", [call |-> "assign", attribute |-> a[1], v |-> a[2]],
                         par,
                         Assigned(legend,
                                  SetAttribute(legend.legend_parameters, a[1], a[2])))

LegendNext ==
    \/ CallLegend
    \/ CallGraphicContainer
    \/ AssignLegendParameter

LegendSpec == LegendInit /\ [][LegendNext]_vars

\* ------------------------------------------------------------- parameter calls
\* the values a caller assigns to each attribute: None, values that are
\* accepted and values that are not
AssignedValues ==
    ({"min"} \X {None, << -1 >>, << 2 >>})
    \cup ({"max"} \X {None, << 1 >>, << -2 >>})
    \cup ({"segment_count"} \X {None, << 1 >>, << 5 >>})
    \cup ({"colors"} \X {None, << 1 >>, << 3 >>})
    \cup ({"segment_height"} \X {None, << 0 >>, << 50 >>})
    \cup ({"segment_width"} \X {None, << -10 >>, << 200 >>})
    \cup ({"text_height"} \X {None, << 0 >>, << 20 >>})
    \cup ({"vertical"} \X {None, << FALSE >>})

\* a program that is about to make a LegendParameters object and to assign to
\* its attributes; no EPW object takes part
ParInit ==
    /\ file = NoFile
    /\ epw = NewEPW
    /\ parsed_header = FALSE
    /\ parsed_data = FALSE
    /\ convs = 0
    /\ write_called = FALSE
    /\ written = << >>
    /\ failed_loads = 0
    /\ op = "init"
    /\ exc = "none"
    /\ args \in [call : {"LegendParameters"}, min : {None, << -1 >>, << 2 >>},
                 max : {None, << 1 >>}, segment_count : {None, << 1 >>, << 3 >>}]
    /\ par = None
    /\ legend = None
    /\ data_type = None
    /\ result = << >>
    /\ registry = [set_on |-> {}, built |-> 0]

ParReturned(name, a, r) ==
    /\ op' = name
    /\ exc' = r.exc
    /\ args' = a
    /\ par' = r.value
    /\ UNCHANGED << file, epw, parsed_header, parsed_data, convs, write_called,
                    written, failed_loads, data_type, result, registry, legend >>

\* the object of a constructor that raised is never bound
Constructed(r) == IF r.exc = "none" THEN r ELSE Raises(r.exc)

\* par = LegendParameters(min, max, segment_count)
CallLegendParameters ==
    /\ op = "init"
    /\ ParReturned("LegendParameters", args,
                   Constructed(NewParameters(args.min, args.max, args.segment_count)))

\* par.attribute = v
AssignParameter ==
    /\ par # None
    /\ \E a \in AssignedValues :
          ParReturned("assign", [call |-> "assign", attribute |-> a[1], v |-> a[2]],
                      SetAttribute(par, a[1], a[2]))

ParNext ==
    \/ CallLegendParameters
    \/ AssignParameter

ParSpec == ParInit /\ [][ParNext]_vars

\* ------------------------------------------------------------- properties
\* Python's == on two values: numbers compare by value, texts by text
PyEq(x, y) ==
    IF x.kind = y.kind \/ x.kind = "str" \/ y.kind = "str" THEN x = y
    ELSE Tenths(x) = Tenths(y)

\* two lists of series hold the same values, in the same order and unit
SameData(a, b) ==
    /\ Len(a) = Len(b)
    /\ \A i \in 1 .. Len(a) :
          /\ a[i].coll = b[i].coll
          /\ a[i].unit = b[i].unit
          /\ Len(a[i].values) = Len(b[i].values)
          /\ \A k \in 1 .. Len(a[i].values) : PyEq(a[i].values[k], b[i].values[k])

\* the data lines of the file and of the text save wrote (lines 9 and on)
FileData == SubSeq(file.lines, 9, Len(file.lines))
WrittenData == SubSeq(written, 9, Len(written))

\* a text in the form str() gives the value of the column
Canonical(f, tok) ==
    \/ FieldType(f) = "str"
    \/ FieldType(f) = "float" /\ tok.form = "dec"
    \/ FieldType(f) = "int" /\ tok.form = "int"

\* a save that loaded the data of a valid file itself and completed
LoadedAndSaved ==
    /\ op = "save" /\ exc = "none" /\ parsed_data
    /\ file \in ValidFiles

\* C1 as stated: loading a valid full-year file and immediately saving it
\* writes data lines equal, text by text, to the data lines of the file.
C1_SameText == LoadedAndSaved => WrittenData = FileData

\* C1 as amended: the written data lines are as many as the file's, in the
\* same order of hours, each column holding the same value as in the file, and
\* the same text wherever the file's text is in the form str() gives.
C1_SameValues ==
    LoadedAndSaved =>
        /\ Len(WrittenData) = Len(FileData)
        /\ \A k \in 1 .. Len(FileData) :
              /\ Len(WrittenData[k]) = Len(FileData[k])
              /\ \A j \in 1 .. Len(FileData[k]) :
                    /\ ParseValue(FieldType(j - 1), WrittenData[k][j])
                         = ParseValue(FieldType(j - 1), FileData[k][j])
                    /\ Canonical(j - 1, FileData[k][j])
                         => WrittenData[k][j] = FileData[k][j]

C1_Witness ==
    /\ LoadedAndSaved
    /\ Len(WrittenData) = YearHours
    /\ \E j \in 1 .. MaxFields : ~Canonical(j - 1, FileData[1][j])

\* the data was loaded by the last operation and that operation left the
\* loaded series as they were
JustLoaded ==
    /\ op \in {"field", "convert_to_si"}
    /\ parsed_data /\ epw.is_data_loaded
    /\ file \in ValidFiles

\* C2 as stated: after the load, index 0 of every point-in-time series holds
\* the value of file line 9, and save writes the file order back.
C2_Line9AtIndex0 ==
    JustLoaded =>
        \A f \in 0 .. (epw.num_of_fields - 1) :
            PointInTime(f) =>
                epw.data[f + 1].values[1] = ParseValue(FieldType(f), FileData[1][f + 1])

\* C2 as amended: after the load, index 0 of every point-in-time series holds
\* the value of the last data line and index 1 the value of file line 9; save
\* writes the values back in the order of the file.
C2_LastLineAtIndex0 ==
    /\ JustLoaded =>
          \A f \in 0 .. (epw.num_of_fields - 1) :
              PointInTime(f) =>
                  /\ epw.data[f + 1].values[1]
                       = ParseValue(FieldType(f), FileData[Len(FileData)][f + 1])
                  /\ epw.data[f + 1].values[2]
                       = ParseValue(FieldType(f), FileData[1][f + 1])
    /\ LoadedAndSaved =>
          \A k \in 1 .. Len(FileData) : \A f \in 0 .. (epw.num_of_fields - 1) :
              PointInTime(f) =>
                  ParseValue(FieldType(f), WrittenData[k][f + 1])
                    = ParseValue(FieldType(f), FileData[k][f + 1])

C2_Witness ==
    /\ JustLoaded
    /\ epw.num_of_fields = MaxFields
    /\ Len(epw.data[7].values) = YearHours

\* the series of field f as save and to_wea read it: in SI
SIView(self, f) ==
    IF self.is_ip THEN CollectionToSI(f, self.data[f + 1]) ELSE self.data[f + 1]

\* the index (1-based) of the value of series c written on data line h: the
\* next hour for a point-in-time field, the same hour for any other
WrittenIndex(f, c, h) ==
    IF PointInTime(f) THEN (IF h < Len(c.values) THEN h + 1 ELSE 1) ELSE h

\* the lines save wrote hold, hour by hour, the SI values of the series of
\* self, the point-in-time series moved back by one hour
WroteShifted(self, text) ==
    /\ Len(text) = 8 + Hours(self.is_leap_year)
    /\ \A h \in 1 .. Hours(self.is_leap_year) :
          /\ Len(text[8 + h]) = self.num_of_fields
          /\ \A f \in 0 .. (self.num_of_fields - 1) :
                text[8 + h][f + 1]
                  = Str(SIView(self, f).values[WrittenIndex(f, self.data[f + 1], h)])

\* save was called on loaded data and completed
SaveCompleted == epw.is_data_loaded /\ op' = "save" /\ exc' = "none"

\* save was called on loaded data and raised
SaveFailed == epw.is_data_loaded /\ op' = "save" /\ exc' # "none"

C4_FailedSaveLeavesSeries ==
    [][SaveFailed => SameData(epw'.data, epw.data)]_vars

\* a series of the EPW is shorter than the hours of its annual period
ShortSeries(self) ==
    \E f \in 1 .. self.num_of_fields :
        Len(self.data[f].values) < Hours(self.is_leap_year)

\* C5: a save of an EPW with a series shorter than the year, down to the
\* empty series, fails with the ValueError of the data length and never calls
\* the write helper.
C5_ShortSeriesValueError ==
    (op = "save" /\ epw.is_data_loaded /\ ShortSeries(epw))
        => (exc = "ValueError" /\ ~write_called)

\* C6: a save of an EPW in IP writes the SI values and, when it completes,
\* leaves is_ip true and the series back in IP, each series converted once
\* each way; a save of an EPW in SI converts nothing and leaves is_ip false.
C6_SaveUnits ==
    [][/\ (SaveCompleted /\ epw.is_ip) =>
             /\ WroteShifted(epw, written')
             /\ epw'.is_ip
             /\ SameData(epw'.data, epw.data)
             /\ convs' = 2 * Len(epw.data)
       /\ (op' = "save" /\ ~epw.is_ip) =>
             /\ ~epw'.is_ip
             /\ convs' = 0
             /\ epw.is_data_loaded => SameData(epw'.data, epw.data)]_vars

C6_Witness ==
    /\ op = "save" /\ exc = "none"
    /\ epw.is_ip /\ convs = 2 * MaxFields
    /\ epw.data[7].unit = "IP"
    /\ written # << >>

\* every series of data converted to IP, to SI
AllToIP(data) == [i \in 1 .. Len(data) |-> CollectionToIP(i - 1, data[i])]
AllToSI(data) == [i \in 1 .. Len(data) |-> CollectionToSI(i - 1, data[i])]

\* C7: convert_to_ip and convert_to_si load the data if it is not loaded,
\* convert every series once when the EPW is in the other system and none when
\* it is in the target system, end with is_ip naming the target system, and
\* change nothing when called a second time.
C7_ConvertOnce ==
    [][/\ (op' = "convert_to_ip" /\ exc' = "none") =>
             /\ epw'.is_data_loaded /\ epw'.is_ip
             /\ parsed_data' = ~epw.is_data_loaded
             /\ convs' = (IF epw.is_ip THEN 0 ELSE Len(epw'.data))
             /\ epw.is_data_loaded =>
                   epw'.data = (IF epw.is_ip THEN epw.data ELSE AllToIP(epw.data))
             /\ (op = "convert_to_ip" /\ exc = "none") => epw' = epw
       /\ (op' = "convert_to_si" /\ exc' = "none") =>
             /\ epw'.is_data_loaded /\ ~epw'.is_ip
             /\ parsed_data' = ~epw.is_data_loaded
             /\ convs' = (IF epw.is_ip THEN Len(epw'.data) ELSE 0)
             /\ epw.is_data_loaded =>
                   epw'.data = (IF epw.is_ip THEN AllToSI(epw.data) ELSE epw.data)
             /\ (op = "convert_to_si" /\ exc = "none") => epw' = epw]_vars

C7_Witness ==
    /\ op = "convert_to_ip" /\ exc = "none"
    /\ convs = MaxFields /\ parsed_data
    /\ epw.data[7].unit = "IP" /\ epw.data[6].unit = "SI"

\* C8: reading or assigning a header property of an EPW nothing was loaded of
\* loads the header only: is_header_loaded becomes true, is_data_loaded stays
\* false and no series exists; the load of the data that follows gives the
\* series, and the failure, of a load with no header access before it.
C8_HeaderThenData ==
    [][/\ (/\ ~epw.is_header_loaded /\ ~epw.is_data_loaded
           /\ op' \in {"header_property", "header", "set_location"}
           /\ exc' = "none") =>
             /\ epw'.is_header_loaded /\ parsed_header'
             /\ ~epw'.is_data_loaded /\ ~parsed_data'
             /\ epw'.data = << >>
       /\ (/\ epw.is_header_loaded /\ ~epw.is_data_loaded /\ epw.data = << >>
           /\ op' = "field") =>
             /\ parsed_data' /\ ~parsed_header'
             /\ epw'.data = ImportData(NewEPW, file, FALSE).self.data
             /\ epw'.is_data_loaded = ImportData(NewEPW, file, FALSE).self.is_data_loaded
             /\ (epw'.is_data_loaded /\ Len(FileData) > 1) =>
                   /\ epw'.data[1].values[2] = ParseValue(FieldType(0), file.lines[9][1])
                   /\ epw'.num_of_fields > 10 =>
                         epw'.data[11].values[1]
                           = ParseValue(FieldType(10), file.lines[9][11])
      ]_vars

C8_Witness ==
    /\ op = "field" /\ exc = "none"
    /\ parsed_data /\ ~parsed_header
    /\ epw.is_data_loaded /\ file \in ValidFiles

WroteRadiation(self, text) ==
    /\ Len(text) > 1
    /\ \A k \in 2 .. Len(text) :
          /\ text[k][2] = FormatD(SIView(self, 14).values[text[k][1].v + 1])
          /\ text[k][3] = FormatD(SIView(self, 15).values[text[k][1].v + 1])

\* C10: to_wea writes the radiation values in SI whatever the unit system of
\* the EPW; when it completes, is_ip and the series are what they were before
\* the call, and an EPW in SI is never converted.
C10_ToWeaUnits ==
    [][/\ (epw.is_data_loaded /\ op' = "to_wea" /\ exc' = "none") =>
             /\ WroteRadiation(epw, written')
             /\ epw'.is_ip = epw.is_ip
             /\ SameData(epw'.data, epw.data)
             /\ convs' = (IF epw.is_ip THEN 2 * Len(epw.data) ELSE 0)
       /\ (op' = "to_wea" /\ ~epw.is_ip) => (convs' = 0 /\ ~epw'.is_ip)]_vars

C10_Witness ==
    /\ op = "to_wea" /\ exc = "none"
    /\ epw.is_ip /\ convs = 2 * MaxFields
    /\ Len(written) = 1 + YearHours

\* ------------------------------------------------------------- data type properties
AllNumbers(values) == \A k \in 1 .. Len(values) : IsNumber(values[k])

\* a unit that is neither the base unit of the type nor one of its units
NotOfType(self, unit) ==
    unit # self.units[1] /\ unit \notin { self.units[k] : k \in 1 .. Len(self.units) }

\* a value taken from from_unit to the base unit and from there to unit, a
\* step left out when its unit is the base unit
ThroughBase(self, from_unit, unit, val) ==
    IF from_unit = self.units[1] /\ unit = self.units[1] THEN val
    ELSE IF from_unit = self.units[1]
    THEN FloatVal(ConvertTenths(self.units[1], unit, Tenths(val)))
    ELSE IF unit = self.units[1]
    THEN FloatVal(ConvertTenths(from_unit, self.units[1], Tenths(val)))
    ELSE FloatVal(ConvertTenths(self.units[1], unit,
                                ConvertTenths(from_unit, self.units[1], Tenths(val))))

\* C11: to_unit on a list of numbers raises ValueError when from_unit or the
\* target unit is neither the base unit nor a declared unit; otherwise it
\* returns a list of the same length whose k-th value is the k-th input taken
\* from from_unit to the base unit and from the base unit to the target unit,
\* a step being left out when its unit is the base unit (base to base returns
\* the values unchanged).
C11_ToUnitCore ==
    (op = "to_unit" /\ AllNumbers(args.values)) =>
        IF NotOfType(data_type, args.from_unit) \/ NotOfType(data_type, args.unit)
        THEN exc = "ValueError"
        ELSE /\ exc = "none"
             /\ Len(result) = Len(args.values)
             /\ \A k \in 1 .. Len(result) :
                    result[k] = ThroughBase(data_type, args.from_unit, args.unit,
                                            args.values[k])

\* two numbers went from F through C to K
C11_Witness ==
    /\ op = "to_unit"
    /\ exc = "none"
    /\ args.from_unit = "F"
    /\ args.unit = "K"
    /\ args.values = << IntVal(3), FloatVal(0) >>
    /\ result = << FloatVal(2586), FloatVal(2571) >>

\* C12: a to_unit or is_in_range call with acceptable units on a list that
\* holds a non-numeric element, at any position, fails with the error of a
\* type mismatch (the assertion of _is_numeric, or Python's TypeError).
C12_NonNumericFails ==
    ( /\ op \in {"to_unit", "is_in_range"}
      /\ ~AllNumbers(args.values)
      /\ ~NotOfType(data_type, args.unit) \/ args.unit = "None"
      /\ op = "to_unit" => ~NotOfType(data_type, args.from_unit) )
    => exc \in {"AssertionError", "TypeError"}

\* min_u <= v <= max_u with the bounds of the type taken to unit
WithinBounds(self, unit, val) ==
    /\ self.min.inf = 0 =>
           Tenths(val) >= (IF unit \in {"None", self.units[1]} THEN self.min.t
                           ELSE ConvertTenths(self.units[1], unit, self.min.t))
    /\ self.max.inf = 0 =>
           Tenths(val) <= (IF unit \in {"None", self.units[1]} THEN self.max.t
                           ELSE ConvertTenths(self.units[1], unit, self.max.t))

\* C13: is_in_range on a list of numbers, with the unit omitted or acceptable,
\* returns True exactly when every value lies within the bounds of the type
\* converted to the unit (unconverted for the base unit or no unit), both
\* bounds included; with a value outside it returns False when
\* raise_exception is False and raises ValueError when it is True.
C13_IsInRange ==
    ( /\ op = "is_in_range"
      /\ AllNumbers(args.values)
      /\ ~NotOfType(data_type, args.unit) \/ args.unit = "None" )
    => IF \A k \in 1 .. Len(args.values) :
              WithinBounds(data_type, args.unit, args.values[k])
       THEN exc = "none" /\ result = TRUE
       ELSE IF args.raise_exception THEN exc = "ValueError"
       ELSE exc = "none" /\ result = FALSE

\* 0 K is the converted lower bound, it is in range; in C it would not differ
\* from any other value above -273.1
C13_Witness ==
    /\ op = "is_in_range"
    /\ args.unit = "K"
    /\ args.values = << FloatVal(0), IntVal(4) >>
    /\ exc = "none"
    /\ result = TRUE

\* C14: from_dict of the to_dict of a data type object returns an object of
\* the same class with the same name and the same units.
C14_RoundTrip ==
    (op = "from_dict" /\ data_type # << >>) =>
        /\ exc = "none"
        /\ result.cls = data_type.cls
        /\ Name(result) = Name(data_type)
        /\ result.units = data_type.units

\* ------------------------------------------------------------- legend properties
\* the parameters the caller gave: a call without any is a call with
\* LegendParameters()
Given == IF par = None THEN DefaultParameters ELSE par

\* C15: segment_numbers has segment_count entries, entry i is
\* min + i * (max - min) / (segment_count - 1), so that the first entry is min
\* and the last is max, and without an ordinal dictionary segment_text has one
\* numeric label for each entry.
C15_SegmentNumbers ==
    legend # None =>
        /\ Len(SegmentNumbers(legend)) = legend.legend_parameters.segment_count
        /\ \A k \in DOMAIN SegmentNumbers(legend) :
              SegmentNumbers(legend)[k]
                  = FloatAdd(legend.legend_parameters.min[1],
                             FloatDiv((k - 1) * (legend.legend_parameters.max[1]
                                                 - legend.legend_parameters.min[1]),
                                      legend.legend_parameters.segment_count - 1))
        /\ SegmentNumbers(legend)[1] = FloatOf(legend.legend_parameters.min[1])
        /\ SegmentNumbers(legend)[legend.legend_parameters.segment_count]
               = FloatOf(legend.legend_parameters.max[1])
        /\ legend.legend_parameters.ordinal_dictionary = None
               => /\ Len(SegmentText(legend)) = legend.legend_parameters.segment_count
                  /\ \A k \in DOMAIN SegmentText(legend) :
                        SegmentText(legend)[k].decimals
                            = legend.legend_parameters.decimal_count

\* the text of the dictionary for the boundary k of a legend whose boundaries
\* are spread evenly from min to max, '' when the boundary is no key
LabelOf(ordinal_dictionary, min, max, segment_count, k) ==
    IF \E key \in DOMAIN ordinal_dictionary :
           key * (segment_count - 1) = min * (segment_count - 1) + (k - 1) * (max - min)
    THEN ordinal_dictionary[CHOOSE key \in DOMAIN ordinal_dictionary :
                                key * (segment_count - 1)
                                    = min * (segment_count - 1) + (k - 1) * (max - min)]
    ELSE ""

KeysBetween(ordinal_dictionary, min, max) ==
    { key \in DOMAIN ordinal_dictionary : min <= key /\ key <= max }

\* C17: a GraphicContainer made with a data type that has a categorical map and
\* with parameters without an ordinal dictionary has the lowest key as min only
\* where min was default, the highest key as max only where max was default and
\* the number of keys from min to max as segment_count only where segment_count
\* was default; a min, max or segment_count of the caller is kept, and so is an
\* ordinal dictionary of the caller.
C17_Categories ==
    /\ op = "GraphicContainer" /\ exc = "none"
    /\ data_type # None /\ UnitDescrOf(data_type) # None
    => /\ Given.min # None => legend.legend_parameters.min = Given.min
       /\ Given.max # None => legend.legend_parameters.max = Given.max
       /\ ~Given.is_segment_count_default
              => legend.legend_parameters.segment_count = Given.segment_count
       /\ Given.ordinal_dictionary # None
              => /\ legend.legend_parameters.ordinal_dictionary
                        = Given.ordinal_dictionary
                 /\ legend.legend_parameters.segment_count = Given.segment_count
       /\ Given.ordinal_dictionary = None
              => /\ legend.legend_parameters.ordinal_dictionary
                        = UnitDescrOf(data_type)
                 /\ Given.min = None
                        => legend.legend_parameters.min
                               = << MinOf(DOMAIN UnitDescrOf(data_type)[1]) >>
                 /\ Given.max = None
                        => legend.legend_parameters.max
                               = << MaxOf(DOMAIN UnitDescrOf(data_type)[1]) >>
                 /\ Given.is_segment_count_default
                        => legend.legend_parameters.segment_count
                               = Cardinality(KeysBetween(
                                     UnitDescrOf(data_type)[1],
                                     legend.legend_parameters.min[1],
                                     legend.legend_parameters.max[1]))

\* the caller gave the min -1 and nothing else: max is the highest key, 3, and
\* the five keys from -1 to 3 are the segments
C17_Witness ==
    /\ op = "GraphicContainer"
    /\ exc = "none"
    /\ data_type # None
    /\ UnitDescrOf(data_type) # None
    /\ par # None
    /\ par.min = << -1 >>
    /\ par.max = None
    /\ par.is_segment_count_default
    /\ par.ordinal_dictionary = None
    /\ legend.legend_parameters.min = << -1 >>
    /\ legend.legend_parameters.max = << 3 >>
    /\ legend.legend_parameters.segment_count = 5
    /\ legend.legend_parameters.ordinal_dictionary = << UnitDescr >>

\* the assignment a step makes is one the setter has to refuse
RefusedMinMax ==
    /\ args'.call = "assign"
    /\ args'.v # None
    /\ \/ args'.attribute = "min" /\ par.max # None /\ args'.v[1] > par.max[1]
       \/ args'.attribute = "max" /\ par.min # None /\ args'.v[1] < par.min[1]

\* C18: a LegendParameters object whose min and max are both set has
\* min <= max; the assignment of a min above max or of a max below min fails
\* and leaves min and max as they were.
C18_MinBelowMax ==
    /\ [](par # None /\ par.min # None /\ par.max # None
              => par.min[1] <= par.max[1])
    /\ [][RefusedMinMax
              => /\ exc' = "AssertionError"
                 /\ par'.min = par.min
                 /\ par'.max = par.max]_vars

\* min 2 was refused by an object with min -1 and max 1
C18_Witness ==
    /\ op = "assign"
    /\ args.attribute = "min"
    /\ args.v = << 2 >>
    /\ exc = "AssertionError"
    /\ par.min = << -1 >>
    /\ par.max = << 1 >>

\* the assignment a step makes is of a value the attribute cannot have
RefusedValue ==
    /\ args'.call = "assign"
    /\ args'.v # None
    /\ \/ args'.attribute \in {"segment_count", "colors"} /\ args'.v[1] < 2
       \/ /\ args'.attribute \in {"segment_height", "segment_width", "text_height"}
          /\ args'.v[1] <= 0

\* C19: assigning a segment_count below 2, fewer than 2 colours or a
\* segment_height, segment_width or text_height that is not positive fails and
\* leaves the value and its is-default flag as they were; an object has a
\* segment_count of 2 or more and 2 colours or more.
C19_RefusedValues ==
    /\ [](par # None => par.segment_count >= 2 /\ par.colors >= 2)
    /\ [][RefusedValue => exc' = "AssertionError" /\ par' = par]_vars

\* segment_count 1 was refused by an object whose segment_count the caller
\* had set to 5
C19_Witness ==
    /\ op = "assign"
    /\ args.attribute = "segment_count"
    /\ args.v = << 1 >>
    /\ exc = "AssertionError"
    /\ par.segment_count = 5
    /\ ~par.is_segment_count_default

\* C20: the is-default flag of segment_count, title, base_plane,
\* segment_height, segment_width and text_height is true when the system
\* computed the value and false when the user gave it: an attribute the caller
\* left at its default still has a true flag when Legend or GraphicContainer
\* has computed its value, and one the caller gave has a false flag.
C20_DefaultFlags ==
    op \in {"Legend", "GraphicContainer"} /\ exc = "none" =>
        /\ legend.legend_parameters.is_segment_count_default
               = Given.is_segment_count_default
        /\ legend.legend_parameters.is_title_default = Given.is_title_default
        /\ legend.legend_parameters.is_base_plane_default
               = Given.is_base_plane_default
        /\ legend.legend_parameters.is_segment_height_default
               = Given.is_segment_height_default
        /\ legend.legend_parameters.is_segment_width_default
               = Given.is_segment_width_default
        /\ legend.legend_parameters.is_text_height_default
               = Given.is_text_height_default

\* ------------------------------------------------------------- load properties
\* the last operation loaded the data of the file and left the loaded series
\* as they were
LoadCompleted ==
    /\ op \in {"field", "convert_to_si"}
    /\ parsed_data /\ epw.is_data_loaded

\* the operations that neither assign to a series nor convert one
LeavesSeries == {"header_property", "header", "set_location", "field"}

\* C21: the load puts, in every point-in-time series, the value of the last
\* data line at index 0 and the value of data line i at index i + 1, keeps the
\* order of the file in every other series, gives all series the same length,
\* and shifts once: no operation on loaded data reads the data lines again, and
\* the operations that only read leave every series as the load made it.
C21_LoadShift ==
    /\ [](LoadCompleted =>
            \A f \in 0 .. (epw.num_of_fields - 1) :
                /\ Len(epw.data[f + 1].values) = Len(FileData)
                /\ PointInTime(f) =>
                      /\ epw.data[f + 1].values[1]
                           = ParseValue(FieldType(f), FileData[Len(FileData)][f + 1])
                      /\ \A i \in 1 .. (Len(FileData) - 1) :
                            epw.data[f + 1].values[i + 1]
                              = ParseValue(FieldType(f), FileData[i][f + 1])
                /\ ~PointInTime(f) =>
                      \A i \in 1 .. Len(FileData) :
                          epw.data[f + 1].values[i]
                            = ParseValue(FieldType(f), FileData[i][f + 1]))
    /\ [][epw.is_data_loaded =>
             /\ ~parsed_data'
             /\ op' \in LeavesSeries => epw'.data = epw.data]_vars

\* a full year was loaded: the last line leads the point-in-time series of
\* field 6 and the first line leads the series of field 14
C21_Witness ==
    /\ LoadCompleted
    /\ Len(FileData) = YearHours
    /\ epw.num_of_fields = MaxFields
    /\ epw.data[7].values[1] = ParseValue(FieldType(6), FileData[YearHours][7])
    /\ epw.data[7].values[2] = ParseValue(FieldType(6), FileData[1][7])
    /\ epw.data[15].values[1] = ParseValue(FieldType(14), FileData[1][15])

\* C22: on a file-backed EPW the header lines are parsed at most once and the
\* data lines at most once, is_header_loaded and is_data_loaded never go back
\* to false, is_data_loaded implies is_header_loaded, the list of series does
\* not grow after the data load, and a header load on a loaded header changes
\* nothing.
C22_LoadedOnce ==
    [][file.exists =>
          /\ parsed_header' => ~epw.is_header_loaded
          /\ parsed_data' => ~epw.is_data_loaded /\ failed_loads = 0
          /\ epw.is_header_loaded => epw'.is_header_loaded
          /\ epw.is_data_loaded => epw'.is_data_loaded
          /\ epw'.is_data_loaded => epw'.is_header_loaded
          /\ epw.is_data_loaded => Len(epw'.data) = Len(epw.data)
          /\ (epw.is_header_loaded /\ op' = "header_property")
                => epw' = epw /\ ~parsed_header' /\ ~parsed_data']_vars


\* C25: a save that raises on an EPW in IP mode leaves is_ip true and every
\* series in the unit it had before the call.
C25_FailedSaveKeepsIP ==
    [][(SaveFailed /\ epw.is_ip) =>
          /\ epw'.is_ip
          /\ Len(epw'.data) = Len(epw.data)
          /\ \A f \in 1 .. Len(epw.data) : epw'.data[f].unit = epw.data[f].unit]_vars

\* ------------------------------------------------------------- header properties
\* the header property has returned its lines
HeaderRegenerated == op = "header" /\ exc = "none"

\* the design-condition line of the regenerated header
DesignLine == Header(epw).lines[2]

SentinelLine == << TxtTok("DESIGN CONDITIONS", 0), IntTok(0) >>

\* the section tag and every value of the dictionary are columns of the line
Shows(tag, dict, line) ==
    /\ \E i \in 1 .. Len(line) : line[i] = TxtTok(tag, 0)
    /\ \A k \in 1 .. Len(dict) : \E i \in 1 .. Len(line) : line[i] = dict[k]

\* C23: the regenerated header holds the line 'DESIGN CONDITIONS,0' exactly
\* when the heating, cooling and extreme dictionaries are all empty, and the
\* tag and the values of every non-empty dictionary are in its
\* design-condition line.
C23_DesignSections ==
    HeaderRegenerated =>
        /\ DesignLine = SentinelLine
             <=> /\ epw.heating_dict = << >>
                 /\ epw.cooling_dict = << >>
                 /\ epw.extremes_dict = << >>
        /\ epw.heating_dict # << >> => Shows("Heating", epw.heating_dict, DesignLine)
        /\ epw.cooling_dict # << >> => Shows("Cooling", epw.cooling_dict, DesignLine)
        /\ epw.extremes_dict # << >>
             => Shows("Extremes", epw.extremes_dict, DesignLine)


\* an operation that loads the header or the data when it is not loaded, and
\* assigns nothing
LazyLoads == {"header_property", "header", "field"}

\* C26: a header value the caller assigned on a file-backed EPW before anything
\* was loaded, through the location setter, a design-condition setter or the
\* plain attributes comments_1 and daylight_savings_start, is the value held
\* after every later operation that triggers a lazy load.
C26_AssignedKept ==
    [][/\ (op' = "set_location" /\ exc' = "none")
             => epw'.location = TxtTok("city", 2)
       /\ \A attribute \in {"comments_1", "daylight_savings_start"} :
             op' = "set_" \o attribute => epw'[attribute] = CallerText
       /\ op' \in LazyLoads =>
             /\ epw.location = TxtTok("city", 2) => epw'.location = epw.location
             /\ \A section \in {"heating_dict", "cooling_dict", "extremes_dict"} :
                   epw[section] = CallerDict(RequiredKeys(section))
                      => epw'[section] = epw[section]
             /\ \A attribute \in {"comments_1", "daylight_savings_start"} :
                   epw[attribute] = CallerText
                      => epw'[attribute] = epw[attribute]]_vars

\* C27: each design-condition dictionary is empty or has every required key of
\* its section, and the header property never raises a KeyError.
C27_CompleteDictionaries ==
    /\ \A section \in {"heating_dict", "cooling_dict", "extremes_dict"} :
          DesDictCheck(epw[section], RequiredKeys(section))
    /\ op = "header" => exc # "KeyError"

\* ------------------------------------------------------------- registry properties
\* C24: the registry of data types is built at most once: the first from_dict
\* call builds it, and no later from_dict call, on DataTypeBase or on a
\* subclass, builds it again.
C24_RegistryBuiltOnce ==
    [][op' = "from_dict" =>
          /\ registry.built = 0 => registry'.built = 1
          /\ registry.built >= 1 => registry'.built = registry.built]_vars

\* ------------------------------------------------------------- container properties
\* a GraphicContainer was asked for with a data type that has categories, the
\* caller giving no ordinal dictionary, a unit the data type accepts and a box
\* that extends in x and y
Categorical ==
    /\ op = "GraphicContainer"
    /\ data_type # None
    /\ UnitDescrOf(data_type) # None
    /\ Given.ordinal_dictionary = None
    /\ args.unit = None \/ IsUnitAcceptable(data_type, args.unit[1])
    /\ args.max_point[1] > args.min_point[1]
    /\ args.max_point[2] > args.min_point[2]

\* C28: a GraphicContainer of a data type with categories and of parameters
\* whose min and max are default is made without error whatever the values,
\* also when they all lie below the lowest or above the highest key, and has
\* min = lowest key and max = highest key.
C28_CategoryBounds ==
    (Categorical /\ Given.min = None /\ Given.max = None) =>
        /\ exc = "none"
        /\ legend.legend_parameters.min = << MinOf(DOMAIN UnitDescrOf(data_type)[1]) >>
        /\ legend.legend_parameters.max = << MaxOf(DOMAIN UnitDescrOf(data_type)[1]) >>


\* a bound the caller gave that is no key of the categories
NoKey(bound) == bound # None /\ bound[1] \notin DOMAIN UnitDescrOf(data_type)[1]

\* C29: a GraphicContainer of a data type with categories, of a default
\* segment_count and of an explicit min or max that is no key of the categories
\* is made without error and keeps the default segment_count of 11.
C29_NoKeySkipped ==
    (/\ Categorical
     /\ Given.is_segment_count_default
     /\ NoKey(Given.min) \/ NoKey(Given.max)) =>
        /\ exc = "none"
        /\ legend.legend_parameters.segment_count = 11
        /\ legend.legend_parameters.is_segment_count_default

\* C30: making a Legend or a GraphicContainer from a caller's LegendParameters
\* object leaves that object as it was, values and flags; the defaults the
\* constructors compute are written to the duplicate the legend keeps.
C30_CallerParametersKept ==
    [][op' \in {"Legend", "GraphicContainer"} =>
          /\ par' = par
          /\ (exc' = "none" /\ par # None) =>
                /\ legend'.legend_parameters.min # None
                /\ legend'.legend_parameters.max # None]_vars

C30_Witness ==
    /\ op = "GraphicContainer" /\ exc = "none"
    /\ par # None
    /\ par.min = None /\ par.max = None
    /\ par.ordinal_dictionary = None
    /\ par.is_title_default /\ par.is_segment_count_default
    /\ par.is_segment_height_default /\ par.is_base_plane_default
    /\ legend.legend_parameters.min = << -3 >>
    /\ legend.legend_parameters.max = << 3 >>
    /\ legend.legend_parameters.ordinal_dictionary # None
    /\ legend.legend_parameters.segment_count = 7
    /\ legend.legend_parameters.title # par.title
    /\ legend.legend_parameters.segment_height # par.segment_height
    /\ legend.legend_parameters.base_plane # par.base_plane

====
